---- MODULE Spec2Model ----
(***************************************************************************)
(* Verification model of the polluted-cities backend: the deduplicator,    *)
(* the reputation store (invalid_cities table) with its request handlers,  *)
(* the blocked-city filter of the listing endpoint and the source          *)
(* selector.  Strings are sequences of one-character strings so that       *)
(* toLowerCase / toUpperCase and key concatenation are computed.           *)
(***************************************************************************)
EXTENDS Integers, Sequences, FiniteSets, TLC

(***************************************************************************)
(* Bounds of the model                                                     *)
(***************************************************************************)
MaxLen == 3
MaxTime == 1
MaxCount == 3
NFlows == 3
MaxPage == 3
MaxClock == 604801
MaxDate == 3
MaxRows == 3
MaxStations == 2
MaxRequests == 3
MaxPages == 30

(***************************************************************************)
(* Strings                                                                 *)
(***************************************************************************)
\* The upper-case / lower-case letter pairs the model's strings use.
CasePairs == {<<"W", "w">>, <<"A", "a">>, <<"L", "l">>, <<"O", "o">>,
              <<"P", "p">>, <<"D", "d">>, <<"E", "e">>, <<"X", "x">>,
              <<"U", "u">>, <<"N", "n">>, <<"K", "k">>, <<"C", "c">>,
              <<"I", "i">>, <<"T", "t">>, <<"Y", "y">>}

toLowerCaseChar(c) ==
    IF \E p \in CasePairs : p[1] = c
    THEN (CHOOSE p \in CasePairs : p[1] = c)[2]
    ELSE c

toUpperCaseChar(c) ==
    IF \E p \in CasePairs : p[2] = c
    THEN (CHOOSE p \in CasePairs : p[2] = c)[1]
    ELSE c

\* String.prototype.toLowerCase
toLowerCase(s) == [i \in 1..Len(s) |-> toLowerCaseChar(s[i])]

\* String.prototype.toUpperCase
toUpperCase(s) == [i \in 1..Len(s) |-> toUpperCaseChar(s[i])]

\* The empty string: falsy in JavaScript, as is an absent field.
Empty == <<>>

Warsaw == <<"W", "a">>
warsaw == <<"w", "a">>
Lodz   == <<"L", "o">>
PL     == <<"P", "L">>
DE     == <<"D", "E">>

(***************************************************************************)
(* State                                                                   *)
(***************************************************************************)
VARIABLES
    cities,         \* removeDuplicateCities: the input array
    uniqueCities,   \* removeDuplicateCities: the returned array, as the
                    \* indices of the input objects it holds
    dedupePc,       \* "input" while the array is built, "done" after the call
    invalid_cities, \* the rows of the invalid_cities table
    dbOk,           \* FALSE while statements on the database throw
    now,            \* the wall clock, in seconds
    cache,          \* the entries of the node-cache instance, by key
    response,       \* the HTTP response of the handler that ran last
    flagCalls,      \* history: per key, the upserts made since its row was created
    lastRemoved,    \* history: the keys whose blocked row an unflag deleted and
                    \* that were flagged at most once since
    flows,          \* the concurrent client flows that send flag requests
    sources,        \* what each pollution data source holds, or that it fails
    fetchResult,    \* the outcome of the last fetchPollutionData call
    paginated,      \* applyPaginationToData: the arguments and the result of the
                    \* last call
    validation,     \* isValidCity: the arguments and the result of the last call
    enrichment,     \* enrichCitiesWithDescriptions: the call in progress or the
                    \* last call, with its lookups in flight
    cacheCall,      \* CacheManager: the last call and its result, and per key
                    \* the last set
    retry,          \* PollutionApiService.makeRequestWithRetry: the call in
                    \* progress or the last call
    measured,       \* fetchOpenAQData: the measurements of a city, the rows
                    \* as the query returned them and the city built from them
    repeat,         \* the last two answers of GET /api/cities, when the second
                    \* request repeated the first
    auth,           \* PollutionApiService: the authentication state and the
                    \* requests of the Legacy API in progress
    scan,           \* PollutionApiService.fetchCountryData: the scan in
                    \* progress or the last scan
    recovery        \* history: the names whose last validation passed because
                    \* the lookup threw, and whether the last validation was
                    \* the next one of such a name

dedupeVars == <<cities, uniqueCities, dedupePc>>

storeVars == <<invalid_cities, dbOk, now, cache, response, flagCalls, lastRemoved, flows>>

fetchVars == <<sources, fetchResult>>

callVars ==
    <<paginated, validation, enrichment, cacheCall, retry, measured, repeat, auth,
      scan, recovery>>

vars == <<cities, uniqueCities, dedupePc, invalid_cities, dbOk, now, cache,
          response, flagCalls, lastRemoved, flows, sources, fetchResult,
          paginated, validation, enrichment, cacheCall, retry, measured, repeat,
          auth, scan, recovery>>

(***************************************************************************)
(* Deduplicator: removeDuplicateCities                                     *)
(***************************************************************************)
\* The city objects the deduplicator is run on.  correctedName and city are
\* the first two aliases of the name chain, aqi and pollution the first two
\* of the value chain; an absent field is Empty, respectively 0.  The
\* objects of the second country carry the corrected name only.
CityRecords ==
    {r \in [correctedName : {Empty, Warsaw},
            city          : {Empty, warsaw},
            country       : {PL, DE},
            aqi           : {0, 52},
            pollution     : {0, 45}] :
        r.country = DE => (r.correctedName = Warsaw /\ r.city = Empty)}

\* const cityName = city.correctedName || city.city || city.name || city.cityName
cityNameOf(city) ==
    IF city.correctedName # Empty THEN city.correctedName ELSE city.city

\* const pollutionValue = city.aqi || city.pollution || city.airQualityIndex || 0
pollutionValueOf(city) ==
    IF city.aqi # 0 THEN city.aqi ELSE city.pollution

\* The key without the lower-casing of the name.
uniqueKeyCaseSensitive(city) ==
    cityNameOf(city) \o <<"_">> \o city.country

\* const uniqueKey = `${cityName.toLowerCase()}_${city.country}`
uniqueKey(city) ==
    toLowerCase(cityNameOf(city)) \o <<"_">> \o city.country

\* A later duplicate also replaces the kept one on a tie.
replacesExistingOnTie(pollutionValue, existingPollution) ==
    pollutionValue >= existingPollution

\* if (pollutionValue > existingPollution)
replacesExisting(pollutionValue, existingPollution) ==
    pollutionValue > existingPollution

\* The position of key k in the Map's insertion order (0: not in the Map).
mapIndexOf(keys, k) ==
    IF \E i \in 1..Len(keys) : keys[i] = k
    THEN CHOOSE i \in 1..Len(keys) : keys[i] = k
    ELSE 0

\* One iteration of the for loop over the input.  The Map is the pair
\* keys (insertion order) and vals (the index of the object held per key);
\* Map.set on a present key keeps the key's position.
dedupeStep(m, input, i) ==
    LET city == input[i]
        pos  == mapIndexOf(m.keys, uniqueKey(city))
    IN  IF cityNameOf(city) = Empty THEN m
        ELSE IF pos # 0
             THEN IF replacesExisting(pollutionValueOf(city),
                                      pollutionValueOf(input[m.vals[pos]]))
                  THEN [m EXCEPT !.vals[pos] = i]
                  ELSE m
             ELSE [keys |-> Append(m.keys, uniqueKey(city)),
                   vals |-> Append(m.vals, i)]

RECURSIVE dedupeLoop(_, _, _)
dedupeLoop(m, input, i) ==
    IF i > Len(input) THEN m
    ELSE dedupeLoop(dedupeStep(m, input, i), input, i + 1)

\* removeDuplicateCities(cities): Array.from(cityMap.values()), each element
\* given as the index of the input object.
removeDuplicateCities(input) ==
    dedupeLoop([keys |-> <<>>, vals |-> <<>>], input, 1).vals

InitDedupe ==
    /\ cities = <<>>
    /\ uniqueCities = <<>>
    /\ dedupePc = "input"

\* The caller appends one more record to the array it will deduplicate.
PushCity(city) ==
    /\ dedupePc = "input"
    /\ Len(cities) < MaxLen
    /\ cities' = Append(cities, city)
    /\ UNCHANGED <<uniqueCities, dedupePc>>
    /\ UNCHANGED storeVars
    /\ UNCHANGED fetchVars
    /\ UNCHANGED callVars

\* const uniqueCities = this.removeDuplicateCities(validCities)
CallRemoveDuplicateCities ==
    /\ dedupePc = "input"
    /\ uniqueCities' = removeDuplicateCities(cities)
    /\ dedupePc' = "done"
    /\ UNCHANGED cities
    /\ UNCHANGED storeVars
    /\ UNCHANGED fetchVars
    /\ UNCHANGED callVars

(***************************************************************************)
(* Reputation store: DatabaseService over the invalid_cities table         *)
(***************************************************************************)
\* The rows of the locations table that the handlers read, in the order of
\* ORDER BY city ASC.  No handler writes the table.
locations ==
    << [city |-> Lodz,   country |-> "Poland",  country_code |-> PL],
       [city |-> Warsaw, country |-> "Poland",  country_code |-> PL],
       [city |-> Warsaw, country |-> "Germany", country_code |-> DE] >>

\* The city names and country codes that requests carry.
CityNames == {Warsaw, warsaw, Lodz}
CountryCodeInputs == {Empty, PL, <<"p", "l">>, <<"X", "X">>}

\* The entry is resident, expired or not.
cacheResident(c, key, t) == key \in DOMAIN c

\* cache.get(key) returns a value (not undefined): the entry is resident and
\* has not expired.
cacheHit(c, key, t) == key \in DOMAIN c /\ t <= c[key].expiresAt

\* cache.get(key) on a hit.
cacheGet(c, key) == c[key].value

\* cache.set(key, value, ttl)
cacheSet(c, key, value, ttl, t) ==
    [k \in DOMAIN c \cup {key} |->
        IF k = key THEN [value |-> value, expiresAt |-> t + ttl] ELSE c[k]]

AvailableCountriesKey == <<"available_countries">>
AvailableCountriesTtl == 1800

\* SELECT DISTINCT country_code as code, country as name FROM locations
\* ORDER BY country ASC, over the rows of locations.
availableCountries ==
    << [code |-> DE, name |-> "Germany"], [code |-> PL, name |-> "Poland"] >>

\* countries.map(c => c.code), as a set
countryCodes(countries) == {countries[i].code : i \in 1..Len(countries)}

\* The list returned when the query throws: GH, IN, AR, VN, MN, CN, BD, SG,
\* CL, PL.
fallbackCountries ==
    << [code |-> <<"G", "H">>, name |-> "Ghana"],
       [code |-> <<"I", "N">>, name |-> "India"],
       [code |-> <<"A", "R">>, name |-> "Argentina"],
       [code |-> <<"V", "N">>, name |-> "Vietnam"],
       [code |-> <<"M", "N">>, name |-> "Mongolia"],
       [code |-> <<"C", "N">>, name |-> "China"],
       [code |-> <<"B", "D">>, name |-> "Bangladesh"],
       [code |-> <<"S", "G">>, name |-> "Singapore"],
       [code |-> <<"C", "L">>, name |-> "Chile"],
       [code |-> PL, name |-> "Poland"] >>

\* getAvailableCountriesFromDatabase: the countries, and the cache after the
\* call.  A cached list is returned without a query; when the query throws
\* (ok = FALSE) the fallback list is returned and nothing is cached.
getAvailableCountriesFromDatabase(c, ok, t) ==
    IF cacheHit(c, AvailableCountriesKey, t)
    THEN [countries |-> cacheGet(c, AvailableCountriesKey), cache |-> c]
    ELSE IF ~ok
    THEN [countries |-> fallbackCountries, cache |-> c]
    ELSE [countries |-> availableCountries,
          cache |-> cacheSet(c, AvailableCountriesKey, availableCountries,
                             AvailableCountriesTtl, t)]

\* The keys under which the handlers can create rows.
StoreKeys == CityNames \X countryCodes(availableCountries)

\* VALUES (?, ?, 1, CURRENT_TIMESTAMP, CURRENT_TIMESTAMP)
insertedRow(cityName, countryCode, t) ==
    [city_name |-> cityName, country_code |-> countryCode, invalid_count |-> 1,
     first_marked_at |-> t, last_marked_at |-> t]

\* UNIQUE(city_name, country_code) and WHERE city_name = ? AND country_code = ?
\* compare with the BINARY collation: byte for byte.
sameKey(row, cityName, countryCode) ==
    row.city_name = cityName /\ row.country_code = countryCode

rowsOfKey(table, cityName, countryCode) ==
    {r \in table : sameKey(r, cityName, countryCode)}

\* ON CONFLICT ... DO NOTHING: the increment is lost.
onConflictDoNothing(row, t) == row

\* ON CONFLICT(city_name, country_code) DO UPDATE SET
\*   invalid_count = invalid_count + 1, last_marked_at = CURRENT_TIMESTAMP
onConflictDoUpdate(row, t) ==
    [row EXCEPT !.invalid_count = @ + 1, !.last_marked_at = t]

\* An upsert that stamps every row of the table.
upsertStampingAll(table, cityName, countryCode, t) ==
    {[r EXCEPT !.last_marked_at = t] :
        r \in IF rowsOfKey(table, cityName, countryCode) # {}
              THEN (table \ rowsOfKey(table, cityName, countryCode))
                      \cup {onConflictDoUpdate(q, t) :
                                q \in rowsOfKey(table, cityName, countryCode)}
              ELSE table \cup {insertedRow(cityName, countryCode, t)}}

\* The INSERT ... ON CONFLICT statement of markCityInvalid: the table after it.
upsertInvalidCity(table, cityName, countryCode, t) ==
    IF rowsOfKey(table, cityName, countryCode) # {}
    THEN (table \ rowsOfKey(table, cityName, countryCode))
            \cup {onConflictDoUpdate(r, t) : r \in rowsOfKey(table, cityName, countryCode)}
    ELSE table \cup {insertedRow(cityName, countryCode, t)}

\* RETURNING invalid_count
returningInvalidCount(table, cityName, countryCode) ==
    (CHOOSE r \in rowsOfKey(table, cityName, countryCode) : TRUE).invalid_count

\* The threshold taken one flag too late.
markedBlockedAbove(invalidCount) == invalidCount > 3

\* isBlocked: result.invalid_count >= 3
markedBlocked(invalidCount) == invalidCount >= 3

\* DatabaseService.markCityInvalid: the table after the call and the result.
\* ok is FALSE when the table is missing or the statement throws.
dbMarkCityInvalid(table, ok, cityName, countryCode, t) ==
    IF ~ok
    THEN [table |-> table, success |-> FALSE, invalidCount |-> 0, isBlocked |-> FALSE]
    ELSE LET after == upsertInvalidCity(table, cityName, countryCode, t)
             count == returningInvalidCount(after, cityName, countryCode)
         IN  [table |-> after, success |-> TRUE, invalidCount |-> count,
              isBlocked |-> markedBlocked(count)]

\* DatabaseService.isCityBlocked: result ? result.invalid_count >= 3 : false,
\* and false when the lookup fails.
isCityBlocked(table, ok, cityName, countryCode) ==
    IF ~ok THEN FALSE
    ELSE \E r \in rowsOfKey(table, cityName, countryCode) : r.invalid_count >= 3

\* UPDATE ... SET invalid_count = 0 in place of the DELETE.
resetInvalidCity(table, cityName, countryCode) ==
    (table \ rowsOfKey(table, cityName, countryCode))
        \cup {[r EXCEPT !.invalid_count = 0] : r \in rowsOfKey(table, cityName, countryCode)}

\* DELETE FROM invalid_cities WHERE city_name = ? AND country_code = ?
deleteInvalidCity(table, cityName, countryCode) ==
    table \ rowsOfKey(table, cityName, countryCode)

\* DatabaseService.removeInvalidCity when the statement does not throw:
\* result.changes is the number of rows the statement matched.
dbRemoveInvalidCity(table, cityName, countryCode) ==
    LET changes == Cardinality(rowsOfKey(table, cityName, countryCode))
    IN  [table |-> deleteInvalidCity(table, cityName, countryCode),
         success |-> changes > 0, changes |-> changes]

\* ORDER BY last_marked_at ASC: the oldest flag first.
orderedAscending(a, b) == a.last_marked_at <= b.last_marked_at

\* ORDER BY last_marked_at DESC: row a may be returned before row b.
orderedDescending(a, b) == a.last_marked_at >= b.last_marked_at

\* WHERE invalid_count > 3
whereAboveThreshold(row) == row.invalid_count > 3

\* WHERE invalid_count >= 3
whereBlocked(row) == row.invalid_count >= 3

\* The orders in which the SELECT of getBlockedCities may return the rows of
\* set S: any order that ORDER BY allows (rows of equal last_marked_at come
\* in an order the statement does not fix).
rowOrders(S) ==
    {s \in [1..Cardinality(S) -> S] :
        /\ \A i, j \in 1..Cardinality(S) : i # j => s[i] # s[j]
        /\ \A i, j \in 1..Cardinality(S) : i < j => orderedDescending(s[i], s[j])}

\* blockedCities.map(city => ({cityName, countryCode, invalidCount, lastMarkedAt}))
blockedCityOf(row) ==
    [cityName |-> row.city_name, countryCode |-> row.country_code,
     invalidCount |-> row.invalid_count, lastMarkedAt |-> row.last_marked_at]

\* DatabaseService.getBlockedCities: the arrays the call may return; the
\* empty array when the table is missing or the statement throws.
getBlockedCities(table, ok) ==
    IF ~ok THEN {<<>>}
    ELSE {[i \in 1..Len(s) |-> blockedCityOf(s[i])] :
            s \in rowOrders({r \in table : whereBlocked(r)})}

\* Array.prototype.filter with the two predicates of getInvalidCities.
RECURSIVE filterInvalidCities(_, _, _)
filterInvalidCities(list, countryFilter, blockedOnly) ==
    IF list = <<>> THEN <<>>
    ELSE LET city == Head(list)
             rest == filterInvalidCities(Tail(list), countryFilter, blockedOnly)
         IN  IF /\ (countryFilter = Empty \/ city.countryCode = countryFilter)
                /\ (~blockedOnly \/ city.invalidCount >= 3)
             THEN <<city>> \o rest
             ELSE rest

\* handleError: the status code for the message of the error thrown.
handleError(message) ==
    CASE message = "Unsupported country code" -> 400
      [] message = "Page parameter must be a positive integer" -> 400
      [] message = "Limit parameter must be a positive integer" -> 400
      [] message = "Failed to fetch pollution data" -> 503
      [] message = "validation failed" -> 422
      [] message = "enrichment failed" -> 503
      [] OTHER -> 500

\* The fields a response of any handler can carry, with their absent values;
\* includeBlocked, page and limit are the parsed parameters of a listing,
\* pageParam and limitParam the query parameters of the request answered.
emptyResponse ==
    [op |-> "none", status |-> 0, error |-> "", cityName |-> Empty,
     countryCode |-> Empty, success |-> FALSE, invalidCount |-> 0,
     isBlocked |-> FALSE, changes |-> 0, cities |-> <<>>, total |-> 0,
     includeBlocked |-> FALSE, page |-> 0, limit |-> 0,
     pageParam |-> Empty, limitParam |-> Empty]

\* res.status(statusCode).json({ success: false, error: { message, code } })
errorResponse(op, message) ==
    [emptyResponse EXCEPT !.op = op, !.status = handleError(message),
                          !.error = message]

\* A request flow of a client: idle, its flag request sent, or answered.
idleFlow ==
    [pc |-> "idle", cityName |-> Empty, countryCode |-> Empty,
     response |-> emptyResponse]

Flows == 1..NFlows

InitStore ==
    /\ invalid_cities = {}
    /\ dbOk = TRUE
    /\ now = 0
    /\ cache = << >>
    /\ response = emptyResponse
    /\ flagCalls = [k \in StoreKeys |-> 0]
    /\ lastRemoved = {}
    /\ flows = [f \in Flows |-> idleFlow]

\* CURRENT_TIMESTAMP and Date.now() advance.
Tick ==
    /\ now < MaxTime
    /\ now' = now + 1
    /\ UNCHANGED <<invalid_cities, dbOk, cache, response, flagCalls, lastRemoved, flows>>
    /\ UNCHANGED dedupeVars
    /\ UNCHANGED callVars
    /\ UNCHANGED fetchVars

\* CitiesController.markCityInvalid: the table and the cache after the
\* handler, and its response.  The handler has no await: it runs to its end
\* without another handler in between.
markCityInvalid(table, c, ok, t, cityName, countryCode) ==
    LET avail == getAvailableCountriesFromDatabase(c, ok, t)
        normalizedCode == toUpperCase(countryCode)
        result == dbMarkCityInvalid(table, ok, cityName, normalizedCode, t)
    IN  IF countryCode = Empty
        THEN [table |-> table, cache |-> c,
              response |-> errorResponse("markCityInvalid", "Country code is required")]
        ELSE IF normalizedCode \notin
                   {toUpperCase(code) : code \in countryCodes(avail.countries)}
        THEN [table |-> table, cache |-> avail.cache,
              response |-> errorResponse("markCityInvalid", "Unsupported country code")]
        ELSE [table |-> result.table, cache |-> avail.cache,
              response |->
                  [emptyResponse EXCEPT
                      !.op = "markCityInvalid", !.status = 200,
                      !.success = TRUE, !.cityName = cityName,
                      !.countryCode = countryCode,
                      !.invalidCount = result.invalidCount,
                      !.isBlocked = result.isBlocked]]

\* POST /api/cities/:cityName/invalidate, request and answer in one step.
MarkCityInvalid(cityName, countryCode) ==
    LET out == markCityInvalid(invalid_cities, cache, dbOk, now, cityName, countryCode)
        key == <<cityName, toUpperCase(countryCode)>>
    IN  /\ \A r \in rowsOfKey(invalid_cities, key[1], key[2]) :
              r.invalid_count < MaxCount
        /\ invalid_cities' = out.table
        /\ cache' = out.cache
        /\ response' = out.response
        /\ flagCalls' = IF out.table # invalid_cities
                        THEN [flagCalls EXCEPT ![key] = @ + 1]
                        ELSE flagCalls
        /\ lastRemoved' = IF rowsOfKey(invalid_cities, key[1], key[2]) # {}
                          THEN lastRemoved \ {key}
                          ELSE lastRemoved
        /\ UNCHANGED <<dbOk, now, flows>>
        /\ UNCHANGED dedupeVars
        /\ UNCHANGED callVars
        /\ UNCHANGED fetchVars

\* A client sends POST /api/cities/:cityName/invalidate; the request is in
\* flight until the server runs its handler.
SendFlag(f, cityName, countryCode) ==
    /\ flows[f].pc = "idle"
    /\ flows' = [flows EXCEPT ![f] = [idleFlow EXCEPT !.pc = "sent",
                                                      !.cityName = cityName,
                                                      !.countryCode = countryCode]]
    /\ UNCHANGED <<invalid_cities, dbOk, now, cache, response, flagCalls, lastRemoved>>
    /\ UNCHANGED dedupeVars
    /\ UNCHANGED callVars
    /\ UNCHANGED fetchVars

\* The server runs markCityInvalid for the request of flow f, in whatever
\* order the requests in flight reach it, and answers the flow.
HandleFlag(f) ==
    LET out == markCityInvalid(invalid_cities, cache, dbOk, now,
                               flows[f].cityName, flows[f].countryCode)
        key == <<flows[f].cityName, toUpperCase(flows[f].countryCode)>>
    IN  /\ flows[f].pc = "sent"
        /\ invalid_cities' = out.table
        /\ cache' = out.cache
        /\ flows' = [flows EXCEPT ![f].pc = "answered", ![f].response = out.response]
        /\ flagCalls' = IF out.table # invalid_cities
                        THEN [flagCalls EXCEPT ![key] = @ + 1]
                        ELSE flagCalls
        /\ UNCHANGED <<dbOk, now, response, lastRemoved>>
        /\ UNCHANGED dedupeVars
        /\ UNCHANGED callVars
        /\ UNCHANGED fetchVars

\* DELETE /api/cities/:cityName/invalidate   (CitiesController.removeInvalidCity)
RemoveInvalidCity(cityName, countryCode) ==
    LET avail == getAvailableCountriesFromDatabase(cache, dbOk, now)
        result == dbRemoveInvalidCity(invalid_cities, cityName, countryCode)
    IN  /\ UNCHANGED <<dbOk, now, flows>>
        /\ lastRemoved' =
              IF /\ countryCode \in countryCodes(avail.countries)
                 /\ dbOk
                 /\ \E r \in rowsOfKey(invalid_cities, cityName, countryCode) :
                        r.invalid_count >= 3
              THEN lastRemoved \cup {<<cityName, countryCode>>}
              ELSE lastRemoved
        /\ UNCHANGED dedupeVars
        /\ UNCHANGED callVars
        /\ UNCHANGED fetchVars
        /\ IF countryCode = Empty
           THEN /\ response' = errorResponse("removeInvalidCity", "Country code is required")
                /\ UNCHANGED <<invalid_cities, cache, flagCalls>>
           ELSE /\ cache' = avail.cache
                /\ IF countryCode \notin countryCodes(avail.countries)
                   THEN /\ response' = errorResponse("removeInvalidCity",
                                                     "Unsupported country code")
                        /\ UNCHANGED <<invalid_cities, flagCalls>>
                   ELSE IF ~dbOk
                   THEN \* removeInvalidCity rethrows the error of the statement
                        /\ response' = errorResponse("removeInvalidCity", "SqliteError")
                        /\ UNCHANGED <<invalid_cities, flagCalls>>
                   ELSE /\ invalid_cities' = result.table
                        /\ flagCalls' = [flagCalls EXCEPT ![<<cityName, countryCode>>] = 0]
                        /\ response' =
                              [emptyResponse EXCEPT
                                  !.op = "removeInvalidCity", !.status = 200,
                                  !.success = result.success, !.cityName = cityName,
                                  !.countryCode = countryCode,
                                  !.changes = result.changes]

\* GET /api/cities/invalid   (CitiesController.getInvalidCities); blocked is
\* the query parameter of that name ("" when it is not sent).
GetInvalidCities(blocked, countryFilter) ==
    LET avail == getAvailableCountriesFromDatabase(cache, dbOk, now)
        blockedOnly == blocked # "false"
    IN  /\ UNCHANGED <<invalid_cities, dbOk, now, flagCalls, lastRemoved, flows>>
        /\ UNCHANGED dedupeVars
        /\ UNCHANGED callVars
        /\ UNCHANGED fetchVars
        /\ \E list \in getBlockedCities(invalid_cities, dbOk) :
              IF countryFilter # Empty /\ countryFilter \notin countryCodes(avail.countries)
              THEN /\ cache' = avail.cache
                   /\ response' = errorResponse("getInvalidCities",
                                                "Unsupported country code")
              ELSE /\ cache' = IF countryFilter # Empty THEN avail.cache ELSE cache
                   /\ response' =
                         LET invalidCities ==
                                 filterInvalidCities(list, countryFilter, blockedOnly)
                         IN  [emptyResponse EXCEPT
                                 !.op = "getInvalidCities", !.status = 200,
                                 !.success = TRUE, !.countryCode = countryFilter,
                                 !.cities = invalidCities,
                                 !.total = Len(invalidCities)]

(***************************************************************************)
(* Listing endpoint: GET /api/cities (CitiesController.getCitiesV2)        *)
(***************************************************************************)
\* Array.prototype.slice(start, end)
slice(s, start, end) ==
    LET stop == IF end < Len(s) THEN end ELSE Len(s)
    IN  IF stop <= start THEN <<>> ELSE [i \in 1..(stop - start) |-> s[start + i]]

isDigit(ch) == ch \in {"0", "1", "2", "3", "4", "5", "6", "7", "8", "9"}

digitValue(ch) ==
    CASE ch = "0" -> 0 [] ch = "1" -> 1 [] ch = "2" -> 2 [] ch = "3" -> 3
      [] ch = "4" -> 4 [] ch = "5" -> 5 [] ch = "6" -> 6 [] ch = "7" -> 7
      [] ch = "8" -> 8 [] ch = "9" -> 9

\* parseInt(s, 10): the number that the leading digits of s write, after a
\* minus sign its negative, and NaN when no digit leads.
RECURSIVE parseIntFrom(_, _, _)
parseIntFrom(s, acc, seen) ==
    IF s = <<>> \/ ~isDigit(Head(s))
    THEN [nan |-> ~seen, value |-> acc]
    ELSE parseIntFrom(Tail(s), acc * 10 + digitValue(Head(s)), TRUE)

parseInt(s) ==
    IF s # <<>> /\ Head(s) = "-"
    THEN [nan |-> parseIntFrom(Tail(s), 0, FALSE).nan,
          value |-> 0 - parseIntFrom(Tail(s), 0, FALSE).value]
    ELSE parseIntFrom(s, 0, FALSE)

\* The limit taken as sent.
uncappedLimit(parsedLimit) == parsedLimit

\* Math.min(parsedLimit, 50)
capLimit(parsedLimit) == IF parsedLimit < 50 THEN parsedLimit ELSE 50

\* parseAndValidatePagination: page and limit, or the message of the error
\* thrown.  Empty is a parameter that was not sent.
parseAndValidatePagination(pageParam, limitParam) ==
    LET parsedPage == parseInt(pageParam)
        parsedLimit == parseInt(limitParam)
    IN  IF pageParam # Empty /\ (parsedPage.nan \/ parsedPage.value < 1)
        THEN [error |-> "Page parameter must be a positive integer", page |-> 0, limit |-> 0]
        ELSE IF limitParam # Empty /\ (parsedLimit.nan \/ parsedLimit.value < 1)
        THEN [error |-> "Limit parameter must be a positive integer", page |-> 0, limit |-> 0]
        ELSE [error |-> "",
              page |-> IF pageParam # Empty THEN parsedPage.value ELSE 1,
              limit |-> IF limitParam # Empty THEN capLimit(parsedLimit.value) ELSE 10]

\* parseAndValidateCountries: the country code to list, or the message of
\* the error thrown, and the cache after the call.
parseAndValidateCountries(c, ok, t, countryParam) ==
    LET avail == getAvailableCountriesFromDatabase(c, ok, t)
        country == toUpperCase(countryParam)
    IN  IF countryParam = Empty
        THEN [error |-> "", cache |-> avail.cache,
              country |-> IF Len(avail.countries) > 0
                          THEN avail.countries[1].code
                          ELSE <<"G", "H">>]
        ELSE IF country \notin countryCodes(avail.countries)
        THEN [error |-> "Unsupported country code", cache |-> avail.cache,
              country |-> Empty]
        ELSE [error |-> "", cache |-> avail.cache, country |-> country]

\* A key without the page.
keyWithoutPage(countryCode, page, limit) ==
    <<"db_cities", countryCode, 0, limit, "no_search">>

\* `db_cities:${countryCode}:${page}:${limit}:${searchTerm || 'no_search'}`
dbCitiesKey(countryCode, page, limit) ==
    <<"db_cities", countryCode, page, limit, "no_search">>

DbCitiesTtl == 300

\* Math.max(limit * 5, 100)
fetchLimit(limit) == IF limit * 5 > 100 THEN limit * 5 ELSE 100

\* SELECT DISTINCT city, ... FROM locations WHERE country_code = ? ...
\* ORDER BY city ASC
locationsOf(countryCode) ==
    SelectSeq(locations, LAMBDA row : row.country_code = countryCode)

\* cities.map(city => ({ name: city.city, city: city.city, ...,
\*                       countryCode: city.country_code, ... }))
transformedCity(row) ==
    [city |-> row.city, country |-> row.country, countryCode |-> row.country_code]

\* getCitiesFromDatabase without a search term: the page, the total count
\* and the cache after the call.  A cached result is returned without a
\* query; when a query throws (ok = FALSE) the catch returns no city and
\* total 0.
getCitiesFromDatabase(c, ok, t, countryCode, page, limit) ==
    LET cacheKey == dbCitiesKey(countryCode, page, limit)
        offset == (page - 1) * limit
        rows == locationsOf(countryCode)
        selected == slice(rows, offset, offset + fetchLimit(limit))
        transformedCities == [i \in 1..Len(selected) |-> transformedCity(selected[i])]
        result == [cities |-> slice(transformedCities, 0, limit),
                   totalCount |-> Cardinality({rows[i].city : i \in 1..Len(rows)})]
    IN  IF cacheHit(c, cacheKey, t)
        THEN [cities |-> cacheGet(c, cacheKey).cities,
              totalCount |-> cacheGet(c, cacheKey).totalCount, cache |-> c]
        ELSE IF ~ok
        THEN [cities |-> <<>>, totalCount |-> 0, cache |-> c]
        ELSE [cities |-> result.cities, totalCount |-> result.totalCount,
              cache |-> cacheSet(c, cacheKey, result, DbCitiesTtl, t)]

\* The condition left out: every city is pushed.
keepsEveryCity(table, ok, city) == TRUE

\* if (!databaseService.isCityBlocked(cityName, countryCode)) with
\* cityName = city.city || ... and countryCode = city.countryCode || ...
keepsCity(table, ok, city) == ~isCityBlocked(table, ok, city.city, city.countryCode)

\* filterBlockedCities: the cities that pass the condition, in their order.
RECURSIVE filterBlockedCities(_, _, _)
filterBlockedCities(table, ok, list) ==
    IF list = <<>> THEN <<>>
    ELSE LET city == Head(list)
             rest == filterBlockedCities(table, ok, Tail(list))
         IN  IF keepsCity(table, ok, city)
             THEN <<city>> \o rest
             ELSE rest

\* enrichCitiesWithDescriptions gives every city a description and keeps the
\* cities and their order; the descriptions and the cache entries
\* wikipedia_description:* it writes are not part of this model.
enrichCitiesWithDescriptions(list) == list

\* formatV2Response: the name and the country code of each item.
formatV2Cities(list) ==
    [i \in 1..Len(list) |-> [name |-> list[i].city, countryCode |-> list[i].countryCode]]

\* CitiesController.getCitiesV2 without a search term: the cache after the
\* handler and its response.
getCitiesV2(table, c, ok, t, countryParam, pageParam, limitParam, includeBlockedParam) ==
    LET countries == parseAndValidateCountries(c, ok, t, countryParam)
        pagination == parseAndValidatePagination(pageParam, limitParam)
        includeBlocked == includeBlockedParam = "true"
        dbResult == getCitiesFromDatabase(countries.cache, ok, t, countries.country,
                                          pagination.page, pagination.limit)
        filteredCities == IF ~includeBlocked
                          THEN filterBlockedCities(table, ok, dbResult.cities)
                          ELSE dbResult.cities
        enrichedCities == enrichCitiesWithDescriptions(filteredCities)
    IN  IF countries.error # ""
        THEN [cache |-> countries.cache,
              response |-> [errorResponse("getCitiesV2", countries.error) EXCEPT
                               !.pageParam = pageParam, !.limitParam = limitParam]]
        ELSE IF pagination.error # ""
        THEN [cache |-> countries.cache,
              response |-> [errorResponse("getCitiesV2", pagination.error) EXCEPT
                               !.pageParam = pageParam, !.limitParam = limitParam]]
        ELSE [cache |-> dbResult.cache,
              response |->
                  [emptyResponse EXCEPT
                      !.op = "getCitiesV2", !.status = 200, !.success = TRUE,
                      !.countryCode = countries.country,
                      !.cities = formatV2Cities(enrichedCities),
                      !.total = dbResult.totalCount,
                      !.includeBlocked = includeBlocked,
                      !.page = pagination.page, !.limit = pagination.limit,
                      !.pageParam = pageParam, !.limitParam = limitParam]]

\* GET /api/cities
GetCitiesV2(countryParam, pageParam, limitParam, includeBlockedParam) ==
    LET out == getCitiesV2(invalid_cities, cache, dbOk, now, countryParam,
                           pageParam, limitParam, includeBlockedParam)
    IN  /\ cache' = out.cache
        /\ response' = out.response
        /\ UNCHANGED <<invalid_cities, dbOk, now, flagCalls, lastRemoved, flows>>
        /\ UNCHANGED dedupeVars
        /\ UNCHANGED callVars
        /\ UNCHANGED fetchVars

\* The statements on the SQLite database start to throw (file unreadable,
\* table missing).
FailDatabase ==
    /\ dbOk
    /\ dbOk' = FALSE
    /\ UNCHANGED <<invalid_cities, now, cache, response, flagCalls, lastRemoved, flows>>
    /\ UNCHANGED dedupeVars
    /\ UNCHANGED callVars
    /\ UNCHANGED fetchVars

\* The database works again.
RestoreDatabase ==
    /\ ~dbOk
    /\ dbOk' = TRUE
    /\ UNCHANGED <<invalid_cities, now, cache, response, flagCalls, lastRemoved, flows>>
    /\ UNCHANGED dedupeVars
    /\ UNCHANGED callVars
    /\ UNCHANGED fetchVars

(***************************************************************************)
(* Source selector: CitiesController.fetchPollutionData                    *)
(***************************************************************************)
\* Historical Store (openaq_measurements table), Live API (OpenAQ v3) and
\* Legacy API (pollution API), in the priority order of the selector.
SourceNames == {"historical", "live", "legacy"}

sourceRecord(city, source) == [city |-> city, countryCode |-> PL, source |-> source]

\* What a source holds for the country: it fails (ok = FALSE), or it answers
\* with no record, one record or two records.
SourceStates(source) ==
    {[ok |-> FALSE, records |-> <<>>]} \cup
    {[ok |-> TRUE, records |-> l] :
        l \in {<<>>, <<sourceRecord(Lodz, source)>>,
               <<sourceRecord(Lodz, source), sourceRecord(Warsaw, source)>>}}

\* fetchOpenAQData: null (isNull) when the table has no city on the page or
\* a statement throws, else the cities of the page and the number of cities.
fetchOpenAQData(historical, page, limit) ==
    LET offset == (page - 1) * limit
        paginatedCities == slice(historical.records, offset, offset + limit)
    IN  IF ~historical.ok \/ paginatedCities = <<>>
        THEN [isNull |-> TRUE, cities |-> <<>>, totalCount |-> 0]
        ELSE [isNull |-> FALSE, cities |-> paginatedCities,
              totalCount |-> Len(historical.records)]

\* `openaq_cities_${country}_${JSON.stringify(options)}`
openaqCitiesKey(country, page, limit) == <<"openaq_cities", country, page, limit>>

CacheTtl == 3600

\* OpenAQService.fetchCitiesData: a cached array (also an empty one) is
\* returned without a request; else the answer of the API is cached and
\* returned, and a failed request throws.  requested tells whether
\* apiClient.get was called.
fetchCitiesData(c, t, live, country, page, limit) ==
    LET cacheKey == openaqCitiesKey(country, page, limit)
    IN  IF cacheHit(c, cacheKey, t)
        THEN [threw |-> FALSE, data |-> cacheGet(c, cacheKey), cache |-> c,
              requested |-> FALSE]
        ELSE IF ~live.ok
        THEN [threw |-> TRUE, data |-> <<>>, cache |-> c, requested |-> TRUE]
        ELSE [threw |-> FALSE, data |-> live.records,
              cache |-> cacheSet(c, cacheKey, live.records, CacheTtl, t),
              requested |-> TRUE]

\* CitiesController.fetchPollutionData: the outcome, the sources tried in
\* order and the cache after the call.  Both branches of
\* config.openaq.enabled call openaqService.fetchCitiesData; no branch calls
\* the Legacy API.
fetchPollutionData(srcs, c, t, enabled, country, page, limit) ==
    LET openaqData == fetchOpenAQData(srcs["historical"], page, limit)
        result == fetchCitiesData(c, t, srcs["live"], country, page, limit)
        \* fetchOpenAQData runs its SELECT on every call; the Live API is
        \* requested on a cache miss
        liveAccess == IF result.requested THEN {"historical", "live"}
                                          ELSE {"historical"}
    IN  IF ~openaqData.isNull /\ Len(openaqData.cities) > 0
        THEN [outcome |-> "returned", cities |-> openaqData.cities,
              totalCount |-> openaqData.totalCount, tried |-> <<"historical">>,
              accessed |-> {"historical"}, error |-> "", cache |-> c]
        ELSE IF result.threw
        THEN [outcome |-> "raised", cities |-> <<>>, totalCount |-> 0,
              tried |-> <<"historical", "live">>, accessed |-> liveAccess,
              error |-> "Failed to fetch pollution data", cache |-> result.cache]
        ELSE IF enabled
        THEN [outcome |-> "returned", cities |-> result.data,
              totalCount |-> Len(result.data), tried |-> <<"historical", "live">>,
              accessed |-> liveAccess, error |-> "", cache |-> result.cache]
        ELSE [outcome |-> "returned", cities |-> result.data,
              totalCount |-> Len(result.data), tried |-> <<"historical", "live">>,
              accessed |-> liveAccess, error |-> "", cache |-> result.cache]

\* History: what source would answer the request at the time of the call,
\* and the number of records it holds for the country.
sourceOffer(srcs, c, t, source, country, page, limit) ==
    CASE source = "historical" ->
            [ok |-> srcs[source].ok,
             records |-> fetchOpenAQData(srcs[source], page, limit).cities,
             total |-> Len(srcs[source].records)]
      [] source = "live" ->
            [ok |-> ~fetchCitiesData(c, t, srcs[source], country, page, limit).threw,
             records |-> fetchCitiesData(c, t, srcs[source], country, page, limit).data,
             total |-> Len(fetchCitiesData(c, t, srcs[source], country, page, limit).data)]
      [] OTHER ->
            [ok |-> srcs[source].ok, records |-> srcs[source].records,
             total |-> Len(srcs[source].records)]

noFetch ==
    [outcome |-> "none", cities |-> <<>>, totalCount |-> 0, tried |-> <<>>,
     accessed |-> {}, error |-> "",
     offered |-> [s \in SourceNames |-> [ok |-> TRUE, records |-> <<>>, total |-> 0]]]

InitFetch ==
    /\ sources = [s \in SourceNames |-> [ok |-> TRUE, records |-> <<>>]]
    /\ fetchResult = noFetch

\* A source gets data, loses it, goes down or comes back.
SetSource(source, state) ==
    /\ sources[source] # state
    /\ sources' = [sources EXCEPT ![source] = state]
    /\ UNCHANGED fetchResult
    /\ UNCHANGED storeVars
    /\ UNCHANGED dedupeVars
    /\ UNCHANGED callVars

\* A call of fetchPollutionData([country], {page, limit}).
FetchPollutionData(enabled, country, page, limit) ==
    LET out == fetchPollutionData(sources, cache, now, enabled, country, page, limit)
    IN  /\ fetchResult' =
              [outcome |-> out.outcome, cities |-> out.cities,
               totalCount |-> out.totalCount, tried |-> out.tried,
               accessed |-> out.accessed, error |-> out.error,
               offered |-> [s \in SourceNames |->
                              sourceOffer(sources, cache, now, s, country, page, limit)]]
        /\ cache' = out.cache
        /\ UNCHANGED sources
        /\ UNCHANGED <<invalid_cities, dbOk, now, response, flagCalls, lastRemoved, flows>>
        /\ UNCHANGED dedupeVars
        /\ UNCHANGED callVars

\* formatResponse: the name of every city of the page.
formatResponse(enrichedCities) ==
    [i \in 1..Len(enrichedCities) |-> [name |-> enrichedCities[i].city]]

\* CitiesController.getCities of the backend: the country and the pagination
\* are parsed, the data fetched with the parsed pagination, and the parsed
\* page and limit reported with the total of the fetch.
getCities(srcs, c, ok, t, enabled, countryParam, pageParam, limitParam) ==
    LET countries == parseAndValidateCountries(c, ok, t, countryParam)
        pagination == parseAndValidatePagination(pageParam, limitParam)
        pollutionResult ==
            fetchPollutionData(srcs, countries.cache, t, enabled, countries.country,
                               pagination.page, pagination.limit)
        request == [emptyResponse EXCEPT !.op = "getCities",
                                         !.pageParam = pageParam,
                                         !.limitParam = limitParam]
    IN  IF countries.error # ""
        THEN [fetched |-> FALSE, cache |-> countries.cache,
              response |-> [request EXCEPT !.status = handleError(countries.error),
                                           !.error = countries.error]]
        ELSE IF pagination.error # ""
        THEN [fetched |-> FALSE, cache |-> countries.cache,
              response |-> [request EXCEPT !.status = handleError(pagination.error),
                                           !.error = pagination.error]]
        ELSE IF pollutionResult.outcome = "raised"
        THEN [fetched |-> TRUE, cache |-> pollutionResult.cache,
              response |-> [request EXCEPT
                               !.status = handleError(pollutionResult.error),
                               !.error = pollutionResult.error]]
        ELSE [fetched |-> TRUE, cache |-> pollutionResult.cache,
              response |-> [request EXCEPT
                               !.status = 200,
                               !.countryCode = countries.country,
                               !.cities = formatResponse(pollutionResult.cities),
                               !.total = pollutionResult.totalCount,
                               !.page = pagination.page,
                               !.limit = pagination.limit]]

\* GET /cities
GetCities(enabled, countryParam, pageParam, limitParam) ==
    LET out == getCities(sources, cache, dbOk, now, enabled, countryParam,
                         pageParam, limitParam)
        countries == parseAndValidateCountries(cache, dbOk, now, countryParam)
        pagination == parseAndValidatePagination(pageParam, limitParam)
        fetched == fetchPollutionData(sources, countries.cache, now, enabled,
                                      countries.country, pagination.page,
                                      pagination.limit)
    IN  /\ response' = out.response
        /\ cache' = out.cache
        /\ fetchResult' =
              IF ~out.fetched THEN fetchResult
              ELSE [outcome |-> fetched.outcome, cities |-> fetched.cities,
                    totalCount |-> fetched.totalCount, tried |-> fetched.tried,
                    accessed |-> fetched.accessed, error |-> fetched.error,
                    offered |-> [s \in SourceNames |->
                                   sourceOffer(sources, countries.cache, now, s,
                                               countries.country, pagination.page,
                                               pagination.limit)]]
        /\ UNCHANGED sources
        /\ UNCHANGED <<invalid_cities, dbOk, now, flagCalls, lastRemoved, flows>>
        /\ UNCHANGED dedupeVars
        /\ UNCHANGED callVars

(***************************************************************************)
(* Validator: CityValidator                                                *)
(***************************************************************************)
\* config.cityValidation
MinNameLength == 2
MaxNameLength == 100
allowedCountries == {PL, DE, <<"E", "S">>, <<"F", "R">>}

\* The upper bound of isValidPollutionData, and this.cacheTtl.
MaxAqi == 1000
PlacesCacheTtl == 86400

\* String.prototype.trim
RECURSIVE trimStart(_)
trimStart(s) == IF s # <<>> /\ Head(s) = " " THEN trimStart(Tail(s)) ELSE s

RECURSIVE trimEnd(_)
trimEnd(s) ==
    IF s # <<>> /\ s[Len(s)] = " " THEN trimEnd(SubSeq(s, 1, Len(s) - 1)) ELSE s

trim(s) == trimEnd(trimStart(s))

\* replace(/\s+/g, ' ')
RECURSIVE normalizeSpaces(_)
normalizeSpaces(s) ==
    IF Len(s) < 2 THEN s
    ELSE IF s[1] = " " /\ s[2] = " " THEN normalizeSpaces(Tail(s))
    ELSE <<s[1]>> \o normalizeSpaces(Tail(s))

\* description.split(',')[0]
RECURSIVE firstPart(_)
firstPart(description) ==
    IF description = <<>> \/ Head(description) = "," THEN <<>>
    ELSE <<Head(description)>> \o firstPart(Tail(description))

\* extractCityNameFromDescription
extractCityNameFromDescription(description) ==
    IF description = <<>> THEN <<>>
    ELSE normalizeSpaces(trim(trim(firstPart(description))))

\* The values a pollution field holds: a number, NaN, an infinity, a
\* non-empty string, or undefined.
Number(n) == [type |-> "number", value |-> n]
NaN == [type |-> "nan", value |-> 0]
Infinity == [type |-> "infinity", value |-> 0]
NegativeInfinity == [type |-> "-infinity", value |-> 0]
Text == [type |-> "string", value |-> 0]
Undefined == [type |-> "undefined", value |-> 0]

\* a || b: b when a is falsy (0, NaN, undefined)
falsy(v) == v.type \in {"nan", "undefined"} \/ (v.type = "number" /\ v.value = 0)
orElse(a, b) == IF falsy(a) THEN b ELSE a

\* typeof v === 'number', v < n, v > n, isFinite(v)
typeofNumber(v) == v.type \in {"number", "nan", "infinity", "-infinity"}
lessThan(v, n) == v.type = "-infinity" \/ (v.type = "number" /\ v.value < n)
greaterThan(v, n) == v.type = "infinity" \/ (v.type = "number" /\ v.value > n)
isFinite(v) == v.type = "number"

\* isValidPollutionData({ aqi }): aqi is read as
\* cityData.aqi || cityData.pollution || cityData.airQualityIndex
isValidPollutionData(cityData) ==
    LET aqi == orElse(cityData.aqi, Undefined)
    IN  IF ~typeofNumber(aqi) THEN FALSE
        ELSE IF lessThan(aqi, 0) \/ greaterThan(aqi, MaxAqi) THEN FALSE
        ELSE IF ~isFinite(aqi) THEN FALSE
        ELSE TRUE

\* isValidCountry
isValidCountry(countryName) == trim(countryName) \in allowedCountries

\* hasRequiredFields on a record that carries a city and a country string:
\* its pollution field is not undefined.
hasRequiredFields(cityData) == cityData.pollution.type # "undefined"

\* 'Unknown City'
UnknownCity == <<"U", "n", "k", "n", "o", "w", "n", " ", "C", "i", "t", "y">>

\* `${this.cacheKey}_${cityName.toLowerCase()}`
placesKey(cityName) == <<"google_places_validation", toLowerCase(cityName)>>

\* What the Places Autocomplete request does: fetch throws, the body is
\* not JSON, the JSON body has no predictions field (an error body), the
\* predictions are empty, or the first prediction is a city with a
\* description (kind "notCity": it is not a city).
PlacesAnswers ==
    {[kind |-> k, description |-> <<>>] :
        k \in {"networkError", "notJson", "noPredictionsField", "zeroResults"}}
    \cup {[kind |-> "city", description |-> <<"W", "a", ",", " ", "P", "L">>]}

noAnswer == [kind |-> "none", description |-> <<>>]

\* validateWithGooglePlaces: requested tells whether fetch was called.
validateWithGooglePlaces(c, t, apiKey, answer, cityName) ==
    LET cacheKey == placesKey(cityName)
        noPlace == [isValid |-> FALSE, correctedName |-> <<>>,
                    reason |-> "no_matching_place"]
        noCity == [isValid |-> FALSE, correctedName |-> <<>>,
                   reason |-> "invalid_city_type"]
        city == [isValid |-> TRUE,
                 correctedName |-> extractCityNameFromDescription(answer.description),
                 reason |-> "valid_city"]
        result == CASE answer.kind \in {"noPredictionsField", "zeroResults"} -> noPlace
                    [] answer.kind = "notCity" -> noCity
                    [] OTHER -> city
    IN  IF ~apiKey
        THEN [threw |-> FALSE, isValid |-> TRUE, correctedName |-> cityName,
              cache |-> c, requested |-> FALSE]
        ELSE IF cacheHit(c, cacheKey, t)
        THEN [threw |-> FALSE, isValid |-> cacheGet(c, cacheKey).isValid,
              correctedName |-> cacheGet(c, cacheKey).correctedName,
              cache |-> c, requested |-> FALSE]
        ELSE IF answer.kind \in {"networkError", "notJson"}
        THEN [threw |-> TRUE, isValid |-> FALSE, correctedName |-> <<>>,
              cache |-> c, requested |-> TRUE]
        ELSE [threw |-> FALSE, isValid |-> result.isValid,
              correctedName |-> result.correctedName,
              cache |-> cacheSet(c, cacheKey, result, PlacesCacheTtl, t),
              requested |-> TRUE]

\* A validator that stores the pass it grants when the lookup throws.
cachesFailOpen(c, t, apiKey, answer, cityName) ==
    LET trimmedName == trim(cityName)
        places == validateWithGooglePlaces(c, t, apiKey, answer, trimmedName)
        passed == [isValid |-> TRUE, correctedName |-> trimmedName,
                   reason |-> "fail_open"]
    IN  IF Len(trimmedName) < MinNameLength \/ Len(trimmedName) > MaxNameLength
        THEN [isValid |-> FALSE, correctedName |-> <<>>, cache |-> c,
              requested |-> FALSE]
        ELSE IF places.threw
        THEN [isValid |-> TRUE, correctedName |-> trimmedName,
              cache |-> cacheSet(places.cache, placesKey(trimmedName), passed,
                                 PlacesCacheTtl, t),
              requested |-> places.requested]
        ELSE [isValid |-> places.isValid, correctedName |-> places.correctedName,
              cache |-> places.cache, requested |-> places.requested]

\* isValidCityName: the length check, then the lookup; a lookup that throws
\* lets the trimmed name pass.
isValidCityName(c, t, apiKey, answer, cityName) ==
    LET trimmedName == trim(cityName)
        places == validateWithGooglePlaces(c, t, apiKey, answer, trimmedName)
    IN  IF Len(trimmedName) < MinNameLength \/ Len(trimmedName) > MaxNameLength
        THEN [isValid |-> FALSE, correctedName |-> <<>>, cache |-> c,
              requested |-> FALSE]
        ELSE IF places.threw
        THEN [isValid |-> TRUE, correctedName |-> trimmedName, cache |-> places.cache,
              requested |-> places.requested]
        ELSE [isValid |-> places.isValid, correctedName |-> places.correctedName,
              cache |-> places.cache, requested |-> places.requested]

\* isValidCity: required fields, city name, country, pollution, in this
\* order; false is reported as isValid = FALSE.
isValidCity(c, t, apiKey, answer, cityData) ==
    LET rawCityName == IF cityData.city = Empty THEN UnknownCity ELSE cityData.city
        pollutionValue == orElse(cityData.pollution, Number(0))
        validationResult == isValidCityName(c, t, apiKey, answer, rawCityName)
        correctedCityName == IF validationResult.correctedName = Empty
                             THEN rawCityName
                             ELSE validationResult.correctedName
    IN  IF ~hasRequiredFields(cityData)
        THEN [isValid |-> FALSE, correctedName |-> <<>>, cache |-> c,
              requested |-> FALSE]
        ELSE IF ~validationResult.isValid
        THEN [isValid |-> FALSE, correctedName |-> <<>>,
              cache |-> validationResult.cache,
              requested |-> validationResult.requested]
        ELSE IF ~isValidCountry(cityData.country)
        THEN [isValid |-> FALSE, correctedName |-> <<>>,
              cache |-> validationResult.cache,
              requested |-> validationResult.requested]
        ELSE IF ~isValidPollutionData([aqi |-> pollutionValue])
        THEN [isValid |-> FALSE, correctedName |-> <<>>,
              cache |-> validationResult.cache,
              requested |-> validationResult.requested]
        ELSE [isValid |-> TRUE, correctedName |-> correctedCityName,
              cache |-> validationResult.cache,
              requested |-> validationResult.requested]

\* The raw records validated: every name with a valid country and a valid
\* pollution, and a valid name with every country and pollution.
LongName == [i \in 1..(MaxNameLength + 1) |-> "a"]

RawNames ==
    {Empty, <<" ">>, <<"W">>, Warsaw, <<" ", "W", "a", " ">>, <<"0", "0", "7">>,
     <<"#", "#">>, LongName}

RawPollutions ==
    {Number(0 - 1), Number(0), Number(1), Number(MaxAqi), Number(MaxAqi + 1),
     NaN, Infinity, NegativeInfinity, Text, Undefined}

RawRecords ==
    {[city |-> n, country |-> PL, pollution |-> Number(1)] : n \in RawNames}
    \cup {[city |-> Warsaw, country |-> k, pollution |-> v] :
             k \in {PL, <<"X", "X">>}, v \in RawPollutions}

noValidation ==
    [called |-> FALSE, cityData |-> [city |-> Empty, country |-> Empty,
                                     pollution |-> Undefined],
     apiKey |-> FALSE, answer |-> noAnswer,
     cached |-> FALSE, isValid |-> FALSE, correctedName |-> <<>>,
     requested |-> FALSE]

\* The validation of one raw record in the loop of
\* PollutionApiService.fetchCitiesData, in a process with or without
\* config.googlePlaces.apiKey; answer is kept when the request was made.
IsValidCity(cityData, apiKey, answer) ==
    LET out == isValidCity(cache, now, apiKey, answer, cityData)
        name == IF cityData.city = Empty THEN UnknownCity ELSE cityData.city
    IN  /\ validation' =
              [called |-> TRUE, cityData |-> cityData, apiKey |-> apiKey,
               answer |-> IF out.requested THEN answer ELSE noAnswer,
               cached |-> cacheHit(cache, placesKey(trim(name)), now),
               isValid |-> out.isValid, correctedName |-> out.correctedName,
               requested |-> out.requested]
        /\ cache' = out.cache
        /\ UNCHANGED <<invalid_cities, dbOk, now, response, flagCalls, lastRemoved, flows>>
        /\ UNCHANGED <<paginated, enrichment, cacheCall, retry, measured,
                       repeat, auth, scan, recovery>>
        /\ UNCHANGED fetchVars
        /\ UNCHANGED dedupeVars

\* The answers of the Places Autocomplete request while the service is
\* down (fetch throws, the body is not JSON) and after it recovered (the
\* first prediction is a city or is of another type).
FailedAnswers == {a \in PlacesAnswers : a.kind \in {"networkError", "notJson"}}

RecoveredAnswers ==
    {a \in PlacesAnswers : a.kind = "city"}
    \cup {[kind |-> "notCity", description |-> <<"W", "a", ",", " ", "P", "L">>]}

\* The records validated while the lookup service fails and recovers: names
\* that share a cache key and one that does not.
RecoveryRecords ==
    {[city |-> n, country |-> PL, pollution |-> Number(1)] :
        n \in {Warsaw, warsaw, <<" ", "W", "a", " ">>, Lodz}}

noRecovery == [failedOpen |-> {}, again |-> FALSE, answer |-> noAnswer]

InitRecovery == recovery = noRecovery

\* The validation of one raw record in a process with
\* config.googlePlaces.apiKey, as IsValidCity, with the history of the names
\* that passed because the lookup threw.
ValidateCity(cityData, answer) ==
    LET out == isValidCity(cache, now, TRUE, answer, cityData)
        key == placesKey(trim(cityData.city))
        passedOpen == out.requested /\ answer \in FailedAnswers /\ out.isValid
    IN  /\ validation' =
              [called |-> TRUE, cityData |-> cityData, apiKey |-> TRUE,
               answer |-> IF out.requested THEN answer ELSE noAnswer,
               cached |-> cacheHit(cache, key, now),
               isValid |-> out.isValid, correctedName |-> out.correctedName,
               requested |-> out.requested]
        /\ cache' = out.cache
        /\ recovery' =
              [failedOpen |-> IF passedOpen
                              THEN recovery.failedOpen \cup {key}
                              ELSE recovery.failedOpen \ {key},
               again |-> key \in recovery.failedOpen,
               answer |-> answer]
        /\ UNCHANGED <<invalid_cities, dbOk, now, response, flagCalls, lastRemoved, flows>>
        /\ UNCHANGED <<paginated, enrichment, cacheCall, retry, measured,
                       repeat, auth, scan>>
        /\ UNCHANGED fetchVars
        /\ UNCHANGED dedupeVars

(***************************************************************************)
(* Paginator: PollutionApiService.applyPaginationToData                    *)
(***************************************************************************)
\* The start index taken from the page number itself.
startIndexFromPage(page, limit) == page * limit

\* const startIndex = (page - 1) * limit
startIndex(page, limit) == (page - 1) * limit

\* const { page, limit = 9 } = pagination
limitOf(pagination) ==
    IF "limit" \in DOMAIN pagination THEN pagination.limit ELSE 9

\* applyPaginationToData: the page of the list and the length of the list.
applyPaginationToData(filteredData, pagination) ==
    LET page == pagination.page
        limit == limitOf(pagination)
        endIndex == startIndex(page, limit) + limit
    IN  [cities |-> slice(filteredData, startIndex(page, limit), endIndex),
         totalCount |-> Len(filteredData), currentPage |-> page, limit |-> limit]

\* The lists of at most MaxLen city names, and the pagination objects with
\* a page and a limit of at most MaxPage or without a limit.
RecordLists == UNION {[1..n -> CityNames] : n \in 0..MaxLen}

Paginations ==
    [page : 1..MaxPage, limit : 1..MaxPage] \cup [page : 1..MaxPage]

InitCalls ==
    /\ paginated = [called |-> FALSE, filteredData |-> <<>>,
                    pagination |-> [page |-> 1], cities |-> <<>>, totalCount |-> 0]
    /\ validation = noValidation

\* A call of applyPaginationToData(filteredData, pagination).
ApplyPaginationToData(filteredData, pagination) ==
    LET result == applyPaginationToData(filteredData, pagination)
    IN  /\ paginated' = [called |-> TRUE, filteredData |-> filteredData,
                         pagination |-> pagination, cities |-> result.cities,
                         totalCount |-> result.totalCount]
        /\ UNCHANGED <<validation, enrichment, cacheCall, retry, measured,
                       repeat, auth, scan, recovery>>
        /\ UNCHANGED storeVars
        /\ UNCHANGED fetchVars
        /\ UNCHANGED dedupeVars

(***************************************************************************)
(* Enrichment: CitiesController.enrichCitiesWithDescriptions               *)
(***************************************************************************)
\* const concurrencyLimit = 5, the TTL of a wikipedia_description entry and
\* config.cache.wikipediaTtl
ConcurrencyLimit == 5
DescriptionTtl == 604800
WikipediaTtl == 86400

NoDescription == "No description available"

\* The null that getCityDescription returns when no page is found.
Null == "null"

\* description || 'No description available'
orNoDescription(description) ==
    IF description = Null THEN NoDescription ELSE description

\* The array taken as one chunk.
wholeArray(array, chunkSize) == <<array>>

\* chunkArray
RECURSIVE chunksFrom(_, _, _)
chunksFrom(array, i, chunkSize) ==
    IF i >= Len(array) THEN <<>>
    ELSE <<slice(array, i, i + chunkSize)>> \o chunksFrom(array, i + chunkSize, chunkSize)

chunkArray(array, chunkSize) == chunksFrom(array, 0, chunkSize)

\* The number of cities in the chunks before chunk k.
RECURSIVE lengthBefore(_, _)
lengthBefore(chunks, k) ==
    IF k <= 1 THEN 0 ELSE lengthBefore(chunks, k - 1) + Len(chunks[k - 1])

\* The positions in validCities of the cities of chunk k.
indicesOf(chunks, k) ==
    (lengthBefore(chunks, k) + 1)..(lengthBefore(chunks, k) + Len(chunks[k]))

\* WikipediaService.sanitizeKey
isWordChar(ch) ==
    \/ isDigit(ch)
    \/ ch = "_"
    \/ \E p \in CasePairs : ch = p[1] \/ ch = p[2]

RECURSIVE collapseUnderscores(_)
collapseUnderscores(s) ==
    IF Len(s) < 2 THEN s
    ELSE IF s[1] = "_" /\ s[2] = "_" THEN collapseUnderscores(Tail(s))
    ELSE <<s[1]>> \o collapseUnderscores(Tail(s))

stripUnderscores(s) ==
    LET start == IF s # <<>> /\ Head(s) = "_" THEN Tail(s) ELSE s
    IN  IF start # <<>> /\ start[Len(start)] = "_"
        THEN SubSeq(start, 1, Len(start) - 1)
        ELSE start

sanitizeKey(str) ==
    LET lower == toLowerCase(str)
        replaced == [i \in 1..Len(lower) |->
                        IF isWordChar(lower[i]) THEN lower[i] ELSE "_"]
    IN  stripUnderscores(collapseUnderscores(replaced))

\* `wikipedia_${sanitizeKey(cityName)}_${sanitizeKey(countryName)}`
wikipediaKey(cityName, countryName) ==
    <<"wikipedia", sanitizeKey(cityName), sanitizeKey(countryName)>>

\* `wikipedia_description:${correctedCityName.toLowerCase()}:${countryCode.toLowerCase()}`
descriptionKey(correctedCityName, countryCode) ==
    <<"wikipedia_description", toLowerCase(correctedCityName), toLowerCase(countryCode)>>

\* What the four search strategies of one lookup get, in order: an extract,
\* a 404, or an error that is not a 404.
WikipediaAnswers ==
    {<<"extract", "notFound", "notFound", "notFound">>,
     <<"error", "notFound", "extract", "notFound">>,
     <<"notFound", "notFound", "notFound", "notFound">>,
     <<"error", "error", "error", "error">>}

Extract == "A city in Poland."

\* searchCityDescription: the description of the first strategy that gets
\* an extract; a strategy that throws is skipped; null when none gets one.
searchCityDescription(answers) ==
    IF \E i \in 1..Len(answers) : answers[i] = "extract" THEN Extract ELSE Null

\* How the lookup ended: "found", "notFound" or, when no strategy got an
\* extract and one threw, "failed".
lookupOutcome(answers) ==
    IF \E i \in 1..Len(answers) : answers[i] = "extract" THEN "found"
    ELSE IF \E i \in 1..Len(answers) : answers[i] = "error" THEN "failed"
    ELSE "notFound"

\* cityValidator.getCorrectedCityName in a process without
\* config.googlePlaces.apiKey
getCorrectedCityName(c, t, cityName) ==
    LET validationResult == validateWithGooglePlaces(c, t, FALSE, noAnswer, cityName)
    IN  IF validationResult.correctedName = Empty THEN cityName
        ELSE validationResult.correctedName

rawCityNameOf(city) == IF city.city = Empty THEN UnknownCity ELSE city.city

descriptionKeyOf(c, t, city) ==
    descriptionKey(getCorrectedCityName(c, t, rawCityNameOf(city)), city.country)

wikipediaKeyOf(c, t, city) ==
    wikipediaKey(getCorrectedCityName(c, t, rawCityNameOf(city)), city.country)

\* A promise that sends its request whatever the cache holds.
alwaysLookup(c, t, city) ==
    [state |-> "lookup", cached |-> FALSE, lookup |-> "none", description |-> Null]

\* The part of a chunk promise that runs before its request is sent: the
\* description of the wikipedia_description entry on a hit, else the value
\* of the wikipedia_ entry of getCityDescription on a hit, else the lookup
\* starts.
startTask(c, t, city) ==
    IF cacheHit(c, descriptionKeyOf(c, t, city), t)
    THEN [state |-> "done", cached |-> TRUE, lookup |-> "none",
          description |-> cacheGet(c, descriptionKeyOf(c, t, city))]
    ELSE IF cacheHit(c, wikipediaKeyOf(c, t, city), t)
    THEN [state |-> "done", cached |-> TRUE, lookup |-> "none",
          description |-> orNoDescription(cacheGet(c, wikipediaKeyOf(c, t, city)))]
    ELSE [state |-> "lookup", cached |-> FALSE, lookup |-> "none",
          description |-> Null]

newTask == [state |-> "new", cached |-> FALSE, lookup |-> "none", description |-> Null]

\* cache.set(cacheKey, description || 'No description available', 604800)
\* by the promises of the positions lo..hi that got their description from
\* the wikipedia_ entry.
RECURSIVE cacheAfterStart(_, _, _, _, _)
cacheAfterStart(c, t, array, lo, hi) ==
    IF lo > hi THEN c
    ELSE LET rest == cacheAfterStart(c, t, array, lo + 1, hi)
             task == startTask(c, t, array[lo])
         IN  IF task.state = "done" /\ ~cacheHit(c, descriptionKeyOf(c, t, array[lo]), t)
             THEN cacheSet(rest, descriptionKeyOf(c, t, array[lo]), task.description,
                           DescriptionTtl, t)
             ELSE rest

enrichedCity(city, task) ==
    [city |-> city.city, country |-> city.country,
     description |-> orNoDescription(task.description)]

\* The results in the reverse of the order of the promises.
reversedResults(e, lo, hi) ==
    [i \in 1..(hi - lo + 1) |-> enrichedCity(e.validCities[hi + 1 - i], e.tasks[hi + 1 - i])]

\* await Promise.all(chunkPromises): the results in the order of the
\* promises.
promiseAll(e, lo, hi) ==
    [i \in 1..(hi - lo + 1) |-> enrichedCity(e.validCities[lo + i - 1], e.tasks[lo + i - 1])]

\* When every promise of the current chunk is settled its results are
\* pushed, and the call sleeps before the next chunk or returns after the
\* last one.
settled(e) ==
    LET lo == lengthBefore(e.chunks, e.chunk) + 1
        hi == lengthBefore(e.chunks, e.chunk) + Len(e.chunks[e.chunk])
    IN  IF \E i \in lo..hi : e.tasks[i].state # "done" THEN e
        ELSE [e EXCEPT !.enrichedCities = e.enrichedCities \o promiseAll(e, lo, hi),
                       !.pc = IF e.chunk < Len(e.chunks) THEN "sleeping" ELSE "returned"]

\* The promises of chunk k are created.
startChunk(e, c, t, k) ==
    settled([e EXCEPT !.pc = "running", !.chunk = k,
                      !.tasks = [i \in 1..Len(e.validCities) |->
                                    IF i \in indicesOf(e.chunks, k)
                                    THEN startTask(c, t, e.validCities[i])
                                    ELSE e.tasks[i]]])

noEnrichment ==
    [pc |-> "idle", validCities |-> <<>>, chunks |-> <<>>, chunk |-> 0,
     tasks |-> <<>>, enrichedCities |-> <<>>, sleeps |-> 0, overtaken |-> FALSE,
     resolved |-> {}]

InitEnrich == enrichment = noEnrichment

enrichUnchanged ==
    /\ UNCHANGED <<invalid_cities, dbOk, response, flagCalls, lastRemoved, flows>>
    /\ UNCHANGED <<paginated, validation, cacheCall, retry, measured,
                   repeat, auth, scan, recovery>>
    /\ UNCHANGED fetchVars
    /\ UNCHANGED dedupeVars

\* enrichCitiesWithDescriptions(validCities) is called: the chunks are made
\* and the promises of the first chunk created.
EnrichCitiesWithDescriptions(validCities) ==
    LET chunks == chunkArray(validCities, ConcurrencyLimit)
        called == [noEnrichment EXCEPT
                     !.resolved = enrichment.resolved,
                     !.validCities = validCities, !.chunks = chunks,
                     !.tasks = [i \in 1..Len(validCities) |-> newTask]]
    IN  /\ enrichment.pc \in {"idle", "returned"}
        /\ IF chunks = <<>>
           THEN /\ enrichment' = [called EXCEPT !.pc = "returned"]
                /\ UNCHANGED cache
           ELSE /\ enrichment' = startChunk(called, cache, now, 1)
                /\ cache' = cacheAfterStart(cache, now, validCities,
                                            1, Len(chunks[1]))
        /\ UNCHANGED now
        /\ enrichUnchanged

\* The lookup of the city at position i ends: getCityDescription caches
\* what the search got, the promise caches the description and resolves.
CompleteLookup(i, answers) ==
    LET city == enrichment.validCities[i]
        description == searchCityDescription(answers)
        afterWikipedia == cacheSet(cache, wikipediaKeyOf(cache, now, city), description,
                                   WikipediaTtl, now)
        task == [state |-> "done", cached |-> FALSE,
                 lookup |-> lookupOutcome(answers), description |-> description]
    IN  /\ enrichment.pc = "running"
        /\ i \in 1..Len(enrichment.tasks)
        /\ enrichment.tasks[i].state = "lookup"
        /\ cache' = cacheSet(afterWikipedia, descriptionKeyOf(cache, now, city),
                             orNoDescription(description), DescriptionTtl, now)
        /\ enrichment' =
              settled([enrichment EXCEPT
                          !.tasks[i] = task,
                          \* history: the last lookup of each (name, country)
                          \* pair, its time and what the promise got from it
                          !.resolved =
                              {r \in enrichment.resolved :
                                  r.city # city.city \/ r.country # city.country}
                              \cup {[city |-> city.city, country |-> city.country,
                                     at |-> now,
                                     description |-> orNoDescription(description)]},
                          \* history: a lookup ended before the lookup of an
                          \* earlier position
                          !.overtaken = enrichment.overtaken \/
                              \E j \in 1..(i - 1) : enrichment.tasks[j].state = "lookup"])
        /\ UNCHANGED now
        /\ enrichUnchanged

\* sleep(100) ends and the promises of the next chunk are created.
Wake ==
    LET k == enrichment.chunk + 1
        lo == lengthBefore(enrichment.chunks, k) + 1
        hi == lengthBefore(enrichment.chunks, k) + Len(enrichment.chunks[k])
        slept == [enrichment EXCEPT !.sleeps = enrichment.sleeps + 1]
    IN  /\ enrichment.pc = "sleeping"
        /\ enrichment' = startChunk(slept, cache, now, k)
        /\ cache' = cacheAfterStart(cache, now, enrichment.validCities, lo, hi)
        /\ UNCHANGED now
        /\ enrichUnchanged

\* Time passes between two calls.
Elapse(seconds) ==
    /\ enrichment.pc \in {"idle", "returned"}
    /\ now + seconds <= MaxClock
    /\ now' = now + seconds
    /\ UNCHANGED <<cache, enrichment>>
    /\ enrichUnchanged

\* The cities enriched: Wa, wa, Lo and Po of PL, in lists of at most seven.
cityOf(name) == [city |-> name, country |-> PL]

Poznan == <<"P", "o">>

EnrichInputs ==
    {<<>>, <<cityOf(Warsaw)>>, <<cityOf(Lodz), cityOf(warsaw)>>,
     <<cityOf(Warsaw), cityOf(Lodz), cityOf(warsaw), cityOf(Lodz), cityOf(Warsaw),
       cityOf(Poznan), cityOf(Lodz)>>}

(***************************************************************************)
(* Cache: CacheManager over node-cache                                     *)
(***************************************************************************)
\* The keys used: one per kind of entry that the handlers write.
CacheKeys ==
    {<<"city_validation", <<"w", "a">>, <<"p", "l">>>>,
     <<"wikipedia_description", <<"w", "a">>, <<"p", "l">>>>}

CacheValues == {"v1", "v2"}

\* CacheManager.set: const cacheTtl = ttl || config.cache.ttl (a ttl of 0
\* or null is replaced by the default)
cacheManagerSet(c, key, value, ttl, t) ==
    cacheSet(c, key, value, IF ttl = 0 THEN CacheTtl ELSE ttl, t)

\* The entries that have not expired.
unexpired(c, t) == [k \in {j \in DOMAIN c : t <= c[j].expiresAt} |-> c[k]]

\* CacheManager.get over node-cache with deleteOnExpire: the value of an
\* entry that has not expired; an expired entry is deleted and undefined
\* returned (hit = FALSE).
cacheManagerGet(c, key, t) ==
    IF cacheHit(c, key, t)
    THEN [hit |-> TRUE, value |-> cacheGet(c, key), cache |-> c]
    ELSE [hit |-> FALSE, value |-> "undefined",
          cache |-> [k \in DOMAIN c \ {key} |-> c[k]]]

neverSet == [value |-> "undefined", ttl |-> 0, at |-> 0 - 1]

noCacheCall ==
    [op |-> "none", key |-> <<>>, hit |-> FALSE, value |-> "undefined", at |-> 0,
     threw |-> FALSE, lastSet |-> [k \in CacheKeys |-> neverSet]]

InitCache == cacheCall = noCacheCall

cacheUnchanged ==
    /\ UNCHANGED <<invalid_cities, dbOk, flagCalls, lastRemoved, flows>>
    /\ UNCHANGED <<paginated, validation, enrichment, retry, measured,
                   repeat, auth, scan, recovery>>
    /\ UNCHANGED fetchVars
    /\ UNCHANGED dedupeVars

\* cache.set(key, value, ttl)
CacheSet(key, value, ttl) ==
    /\ cache' = cacheManagerSet(cache, key, value, ttl, now)
    /\ cacheCall' = [cacheCall EXCEPT
                        !.op = "set", !.key = key, !.hit = FALSE, !.value = value,
                        !.at = now, !.threw = FALSE,
                        !.lastSet[key] = [value |-> value, ttl |-> ttl, at |-> now]]
    /\ UNCHANGED <<now, response>>
    /\ cacheUnchanged

\* cache.get(key)
CacheGet(key) ==
    LET got == cacheManagerGet(cache, key, now)
    IN  /\ cache' = got.cache
        /\ cacheCall' = [cacheCall EXCEPT
                            !.op = "get", !.key = key, !.hit = got.hit,
                            !.value = got.value, !.at = now, !.threw = FALSE]
        /\ UNCHANGED <<now, response>>
        /\ cacheUnchanged

\* The periodic check of node-cache (checkperiod) deletes the expired
\* entries.
CheckData ==
    /\ unexpired(cache, now) # cache
    /\ cache' = unexpired(cache, now)
    /\ UNCHANGED <<now, response, cacheCall>>
    /\ cacheUnchanged

\* The methods of CacheManager.
CacheMethods ==
    {"get", "set", "setWikipedia", "delete", "flush", "getStats", "has", "mget",
     "mset"}

\* A call of a method that CacheManager does not have throws a TypeError
\* ("cache.<name> is not a function").
isNotAFunction(method) == method \notin CacheMethods

\* The patterns of clearCache, each by the prefix before ":*".
CachePatterns == {<<"city_validation">>, <<"wikipedia_description">>}

\* A key matches the pattern "<prefix>:*".
matchesPattern(pattern, key) == key[1] = pattern[1]

\* cache.clearPattern(pattern), as the controller calls it: CacheManager has
\* no such method, the call throws and the cache is as before.
ClearPattern(pattern) ==
    /\ isNotAFunction("clearPattern")
    /\ cacheCall' = [cacheCall EXCEPT
                        !.op = "clearPattern", !.key = pattern, !.hit = FALSE,
                        !.value = "undefined", !.at = now, !.threw = TRUE]
    /\ UNCHANGED <<now, cache, response>>
    /\ cacheUnchanged

\* clearCache of the cities API: cacheKeysToClear.forEach calls cache.del on
\* its first key, 'countries_list'; the TypeError ends the try block before
\* any key is cleared and handleError answers.
ClearCache ==
    /\ isNotAFunction("del")
    /\ response' = errorResponse("clearCache", "cache.del is not a function")
    /\ cacheCall' = [cacheCall EXCEPT
                        !.op = "del", !.key = <<"countries_list">>, !.hit = FALSE,
                        !.value = "undefined", !.at = now, !.threw = TRUE]
    /\ UNCHANGED <<now, cache>>
    /\ cacheUnchanged

\* clearCache of the legacy controller: pollutionApiService.clearCache()
\* calls cache.keys(), which throws; clearGooglePlacesCache is not reached.
LegacyClearCache ==
    /\ isNotAFunction("keys")
    /\ response' = errorResponse("legacyClearCache", "cache.keys is not a function")
    /\ cacheCall' = [cacheCall EXCEPT
                        !.op = "keys", !.key = <<>>, !.hit = FALSE,
                        !.value = "undefined", !.at = now, !.threw = TRUE]
    /\ UNCHANGED <<now, cache>>
    /\ cacheUnchanged

(***************************************************************************)
(* Legacy API client: PollutionApiService.makeRequestWithRetry             *)
(***************************************************************************)
\* const maxRetries = config.pollutionApi.retries
maxRetries == 3

\* The errors of apiClient.get by the status of the response; 0 stands for
\* an error without a response (timeout, connection refused).
ErrorStatuses == {0, 404, 500, 502, 503}

\* error.response && error.response.status >= 400 && error.response.status < 500
isClientError(status) == status >= 400 /\ status < 500

RECURSIVE pow(_, _)
\* Math.pow(base, exponent)
pow(base, exponent) == IF exponent = 0 THEN 1 ELSE base * pow(base, exponent - 1)

\* const delay = Math.pow(2, attempt) * 1000, in milliseconds
retryDelay(attempt) == pow(2, attempt) * 1000

\* No call yet. attempt is the loop variable, errors the errors caught in
\* order, delays the delays slept in order.
noRetry == [pc |-> "idle", attempt |-> 0, errors |-> <<>>, delays |-> <<>>]

InitRetry == retry = noRetry

retryUnchanged ==
    /\ UNCHANGED storeVars
    /\ UNCHANGED <<paginated, validation, enrichment, cacheCall, measured,
                   repeat, auth, scan, recovery>>
    /\ UNCHANGED fetchVars
    /\ UNCHANGED dedupeVars

\* makeRequestWithRetry(endpoint, options) is called: the loop starts with
\* attempt = 1 and sends the request.
MakeRequestWithRetry ==
    /\ retry.pc \in {"idle", "returned", "thrown"}
    /\ retry' = [noRetry EXCEPT !.pc = "requesting", !.attempt = 1]
    /\ retryUnchanged

\* apiClient.get resolves: return response
RequestSucceeds ==
    /\ retry.pc = "requesting"
    /\ retry' = [retry EXCEPT !.pc = "returned"]
    /\ retryUnchanged

\* apiClient.get rejects: a client error is rethrown at once; otherwise the
\* loop sleeps when attempt < maxRetries, and with attempt = maxRetries it
\* ends and lastError is thrown.
RequestFails(status) ==
    /\ retry.pc = "requesting"
    /\ retry' =
          IF isClientError(status)
          THEN [retry EXCEPT !.pc = "thrown", !.errors = Append(@, status)]
          ELSE IF retry.attempt < maxRetries
          THEN [retry EXCEPT !.pc = "sleeping", !.errors = Append(@, status),
                             !.delays = Append(@, retryDelay(retry.attempt))]
          ELSE [retry EXCEPT !.pc = "thrown", !.errors = Append(@, status),
                             !.attempt = @ + 1]
    /\ retryUnchanged

\* The sleep ends: the next iteration sends the request again.
RetryAfterSleep ==
    /\ retry.pc = "sleeping"
    /\ retry' = [retry EXCEPT !.pc = "requesting", !.attempt = @ + 1]
    /\ retryUnchanged

(***************************************************************************)
(* Historical Store: the pollution figure of fetchOpenAQData               *)
(***************************************************************************)
\* The rows openaq_measurements can hold for one city: parameter, value and
\* date. The PM2.5 values are even, so that value * 2.5 is an integer.
MeasurementRows ==
    [parameter : {"pm10"}, value : {0, 3, 7}, date : 1..MaxDate] \cup
    [parameter : {"pm2_5"}, value : {0, 2, 4}, date : 1..MaxDate]

\* The tables of at most MaxRows rows.
MeasurementTables == {T \in SUBSET MeasurementRows : Cardinality(T) <= MaxRows}

\* ORDER BY city, date DESC: the orders in which the query may return the
\* rows of one city (rows of one date in an order the statement does not
\* fix).
measurementOrders(T) ==
    {s \in [1..Cardinality(T) -> T] :
        /\ \A i, j \in 1..Cardinality(T) : i # j => s[i] # s[j]
        /\ \A i, j \in 1..Cardinality(T) : i < j => s[i].date >= s[j].date}

\* pm25Value * 2.5
timesConversion(pm25Value) == (pm25Value * 25) \div 10

\* The body of the loop over the records of a city: a pm10 record sets
\* city.pollution; a pm2_5 record sets it to value * 2.5 when
\* !city.pollution || city.pollution === 0.
updateCity(city, record) ==
    IF record.parameter = "pm10"
    THEN [city EXCEPT !.pollution = record.value, !.hasPm10 = TRUE]
    ELSE IF city.pollution = 0
    THEN [city EXCEPT !.pollution = timesConversion(record.value), !.hasPm25 = TRUE]
    ELSE [city EXCEPT !.hasPm25 = TRUE]

\* cityMap.set(cityKey, {..., pollution: 0, ..., lastUpdated: record.date})
newCity(record) ==
    [pollution |-> 0, lastUpdated |-> record.date, hasPm10 |-> FALSE,
     hasPm25 |-> FALSE]

RECURSIVE cityFrom(_, _, _)
\* for (const record of cities): the city after records i..Len(rows).
cityFrom(rows, i, city) ==
    IF i > Len(rows) THEN city
    ELSE cityFrom(rows, i + 1, updateCity(city, rows[i]))

noMeasured ==
    [table |-> {}, rows |-> <<>>, isNull |-> TRUE, items |-> <<>>,
     city |-> [pollution |-> 0, lastUpdated |-> 0, hasPm10 |-> FALSE,
               hasPm25 |-> FALSE]]

InitMeasured == measured = noMeasured

\* fetchOpenAQData over a table that holds the rows of one city, returned
\* by the query in the order rows: null without rows, else the city.
GroupMeasurements(table, rows) ==
    /\ measured' =
          IF Len(rows) = 0
          THEN [noMeasured EXCEPT !.table = table]
          ELSE [table |-> table, rows |-> rows, isNull |-> FALSE, items |-> <<>>,
                city |-> cityFrom(rows, 1, newCity(rows[1]))]
    /\ UNCHANGED storeVars
    /\ UNCHANGED <<paginated, validation, enrichment, cacheCall, retry,
                   repeat, auth, scan, recovery>>
    /\ UNCHANGED fetchVars
    /\ UNCHANGED dedupeVars

\* The rows of a city with values that the validator would reject (below
\* 0, above 1000) and values it would accept.
UnvalidatedRows ==
    [parameter : {"pm10"}, value : {0 - 5, 0, 7, 1001}, date : 1..MaxDate] \cup
    [parameter : {"pm2_5"}, value : {0 - 2, 4, 500}, date : 1..MaxDate]

\* formatResponse: const pollutionValue = city.aqi || city.pollution ||
\* city.airQualityIndex || 0, for a city of fetchOpenAQData, whose aqi is
\* set with its pollution and to the same value.
pollutionValue(city) == IF city.pollution # 0 THEN city.pollution ELSE 0

\* GET /cities served by the Historical Store: fetchPollutionData returns
\* the cities of fetchOpenAQData as they are, and getCities formats them.
GetCitiesFromStore(table, rows) ==
    /\ Len(rows) > 0
    /\ measured' =
          LET city == cityFrom(rows, 1, newCity(rows[1]))
          IN  [table |-> table, rows |-> rows, isNull |-> FALSE, city |-> city,
               items |-> <<[pollution |-> pollutionValue(city)]>>]
    /\ UNCHANGED storeVars
    /\ UNCHANGED <<paginated, validation, enrichment, cacheCall, retry,
                   repeat, auth, scan, recovery>>
    /\ UNCHANGED fetchVars
    /\ UNCHANGED dedupeVars

(***************************************************************************)
(* Listing endpoint over a locations table with several stations per city *)
(***************************************************************************)
\* The rows the locations table can hold for PL: one row per monitoring
\* station, with the city of the station and its latitude.
StationRows ==
    [city : {Lodz, Warsaw, warsaw}, country : {"Poland"}, country_code : {PL},
     latitude : 1..MaxStations]

\* The place of a city name in ORDER BY city ASC (BINARY collation: upper
\* case letters before lower case letters).
collationRank(city) ==
    CASE city = Lodz -> 1
      [] city = Warsaw -> 2
      [] city = warsaw -> 3

\* SELECT DISTINCT city, country, country_code, latitude, longitude, sensors,
\* timezone ... ORDER BY city ASC: the distinct rows (distinct in all the
\* columns selected) in any order that ORDER BY allows.
selectDistinctStations(T) ==
    {s \in [1..Cardinality(T) -> T] :
        /\ \A i, j \in 1..Cardinality(T) : i # j => s[i] # s[j]
        /\ \A i, j \in 1..Cardinality(T) :
              i < j => collationRank(s[i].city) <= collationRank(s[j].city)}

\* GET /api/cities?country=pl without page and limit over a locations table
\* T whose query returns rows: getCitiesV2 with getCitiesFromDatabase,
\* filterBlockedCities and formatV2Response.
GetCitiesV2OverStations(T, rows) ==
    LET countries == parseAndValidateCountries(cache, dbOk, now, <<"p", "l">>)
        pagination == parseAndValidatePagination(Empty, Empty)
        cacheKey == dbCitiesKey(countries.country, pagination.page, pagination.limit)
        offset == (pagination.page - 1) * pagination.limit
        selected == slice(rows, offset, offset + fetchLimit(pagination.limit))
        transformedCities == [i \in 1..Len(selected) |-> transformedCity(selected[i])]
        result == [cities |-> slice(transformedCities, 0, pagination.limit),
                   totalCount |-> Cardinality({r.city : r \in T})]
        dbResult == IF cacheHit(countries.cache, cacheKey, now)
                    THEN cacheGet(countries.cache, cacheKey)
                    ELSE result
        filteredCities == filterBlockedCities(invalid_cities, dbOk, dbResult.cities)
    IN  /\ dbOk
        /\ cache' = IF cacheHit(countries.cache, cacheKey, now)
                    THEN countries.cache
                    ELSE cacheSet(countries.cache, cacheKey, result, DbCitiesTtl, now)
        /\ response' =
              [emptyResponse EXCEPT
                  !.op = "getCitiesV2", !.status = 200, !.success = TRUE,
                  !.countryCode = countries.country,
                  !.cities = formatV2Cities(enrichCitiesWithDescriptions(filteredCities)),
                  !.total = dbResult.totalCount,
                  !.page = pagination.page, !.limit = pagination.limit]
        /\ UNCHANGED <<invalid_cities, dbOk, now, flagCalls, lastRemoved, flows>>
        /\ UNCHANGED dedupeVars
        /\ UNCHANGED callVars
        /\ UNCHANGED fetchVars

(***************************************************************************)
(* Listing endpoint: a request and its repetition                          *)
(***************************************************************************)
\* The part of an answer of the listing that a repetition is compared on.
answerOf(r) == [cities |-> r.cities, total |-> r.total]

noRepeat ==
    [how |-> "none", first |-> answerOf(emptyResponse),
     second |-> answerOf(emptyResponse)]

InitRepeat == repeat = noRepeat

\* GET /api/cities, with a record of the request that came before: when the
\* last answer of any handler was the answer to the same parameters (no
\* flag or unflag request came between), both answers are kept, and whether
\* the second was taken from the cache entry db_cities:... or from a new
\* query.
ListCitiesV2(countryParam, pageParam, limitParam, includeBlockedParam) ==
    LET out == getCitiesV2(invalid_cities, cache, dbOk, now, countryParam,
                           pageParam, limitParam, includeBlockedParam)
        countries == parseAndValidateCountries(cache, dbOk, now, countryParam)
        cacheKey == dbCitiesKey(countries.country, out.response.page,
                                out.response.limit)
        same == /\ response.op = "getCitiesV2"
                /\ response.status = 200
                /\ out.response.status = 200
                /\ response.countryCode = out.response.countryCode
                /\ response.pageParam = pageParam
                /\ response.limitParam = limitParam
                /\ response.includeBlocked = out.response.includeBlocked
    IN  /\ cache' = out.cache
        /\ response' = out.response
        /\ repeat' =
              IF same
              THEN [how |-> IF cacheHit(countries.cache, cacheKey, now)
                            THEN "cached" ELSE "recomputed",
                    first |-> answerOf(response),
                    second |-> answerOf(out.response)]
              ELSE noRepeat
        /\ UNCHANGED <<invalid_cities, dbOk, now, flagCalls, lastRemoved, flows>>
        /\ UNCHANGED dedupeVars
        /\ UNCHANGED <<paginated, validation, enrichment, cacheCall, retry,
                       measured, auth, scan, recovery>>
        /\ UNCHANGED fetchVars

(***************************************************************************)
(* Legacy API client: authentication (PollutionApiService)                 *)
(***************************************************************************)
\* The requests of the Legacy API that can be in progress together.
Requests == 1..MaxRequests

\* this.authToken is null or a token; this.refreshToken is set or not;
\* expired: Date.now() >= this.tokenExpiry; cached: the cache holds
\* pollution_api_auth, whose expiry is the expiry of the token.  Each
\* request is idle, waits for the answer of /auth/refresh or /auth/login,
\* was sent with a bearer, or failed; calls lists the auth requests made
\* for it.
idleRequest == [pc |-> "idle", bearer |-> "none", calls |-> <<>>]

noAuth ==
    [authToken |-> "null", refreshToken |-> FALSE, expired |-> FALSE,
     cached |-> FALSE, requests |-> [r \in Requests |-> idleRequest]]

InitAuth == auth = noAuth

\* The condition without the test of the token.
expiredOnly(a) == a.expired

\* ensureAuthenticated: !this.authToken ||
\* (this.tokenExpiry && Date.now() >= this.tokenExpiry)
needsAuthentication(a) == a.authToken = "null" \/ a.expired

authUnchanged ==
    /\ UNCHANGED storeVars
    /\ UNCHANGED <<paginated, validation, enrichment, cacheCall, retry,
                   measured, repeat, scan, recovery>>
    /\ UNCHANGED fetchVars
    /\ UNCHANGED dedupeVars

\* config.headers.Authorization = `Bearer ${this.authToken}`, and the
\* request is sent.
sendWithBearer(a, r) ==
    [a EXCEPT !.requests[r].pc = "sent", !.requests[r].bearer = a.authToken]

\* authenticate() up to its first await: the cached token, when the cache
\* holds one that has not expired, else POST /auth/login.
authenticate(a, r) ==
    IF a.cached /\ ~a.expired
    THEN sendWithBearer([a EXCEPT !.authToken = "token", !.refreshToken = TRUE], r)
    ELSE [a EXCEPT !.requests[r].pc = "login",
                   !.requests[r].calls = Append(@, "login")]

\* A request other than /auth/login and /auth/refresh enters the request
\* interceptor, which runs up to the first request it has to wait for.
StartRequest(r) ==
    /\ auth.requests[r].pc = "idle"
    /\ auth' =
          IF ~needsAuthentication(auth) THEN sendWithBearer(auth, r)
          ELSE IF auth.refreshToken
          THEN [auth EXCEPT !.requests[r].pc = "refreshing",
                            !.requests[r].calls = Append(@, "refresh")]
          ELSE authenticate(auth, r)
    /\ authUnchanged

\* /auth/refresh answers with a token: refreshAuth stores it, with the new
\* refresh token or else the old one, and the interceptor sends the request.
RefreshSucceeds(r, newRefreshToken) ==
    /\ auth.requests[r].pc = "refreshing"
    /\ auth' = sendWithBearer(
                  [auth EXCEPT !.authToken = "token",
                               !.refreshToken = newRefreshToken \/ @,
                               !.expired = FALSE, !.cached = TRUE], r)
    /\ authUnchanged

\* /auth/refresh fails or answers without a token: refreshAuth clears the
\* tokens and the cache entry, and ensureAuthenticated calls authenticate().
RefreshFails(r) ==
    /\ auth.requests[r].pc = "refreshing"
    /\ auth' = authenticate(
                  [auth EXCEPT !.authToken = "null", !.refreshToken = FALSE,
                               !.expired = FALSE, !.cached = FALSE], r)
    /\ authUnchanged

\* /auth/login answers with a token, with or without a refresh token.
LoginSucceeds(r, newRefreshToken) ==
    /\ auth.requests[r].pc = "login"
    /\ auth' = sendWithBearer(
                  [auth EXCEPT !.authToken = "token",
                               !.refreshToken = newRefreshToken,
                               !.expired = FALSE, !.cached = TRUE], r)
    /\ authUnchanged

\* /auth/login fails or answers without a token: 'Authentication failed'
\* rejects the request.
LoginFails(r) ==
    /\ auth.requests[r].pc = "login"
    /\ auth' = [auth EXCEPT !.requests[r].pc = "failed"]
    /\ authUnchanged

\* The request ends; the next one of the same caller can start.
EndRequest(r) ==
    /\ auth.requests[r].pc \in {"sent", "failed"}
    /\ auth' = [auth EXCEPT !.requests[r] = idleRequest]
    /\ authUnchanged

\* The clock reaches this.tokenExpiry, which is the expiry of the cache
\* entry as well.
TokenExpires ==
    /\ auth.authToken = "token"
    /\ ~auth.expired
    /\ auth' = [auth EXCEPT !.expired = TRUE]
    /\ authUnchanged

(***************************************************************************)
(* Legacy API client: the scan of a country (fetchCountryData)             *)
(***************************************************************************)
\* response.data.results of page p: two records, named by page and place.
resultsOfPage(p) == <<[page |-> p, place |-> 1], [page |-> p, place |-> 2]>>

\* The loop ends one page early.
stopsEarly(page, totalPages) == totalPages # 0 /\ page + 1 < totalPages

\* if (response.data.meta && response.data.meta.totalPages)
\*   hasMorePages = page < response.data.meta.totalPages
\* else hasMorePages = false; totalPages = 0 stands for a response without
\* meta.totalPages.
hasMorePages(page, totalPages) == totalPages # 0 /\ page < totalPages

\* No scan yet.  totalPages is what the API reports during the scan,
\* requested the pages asked for in order, citiesData the records pushed,
\* result what fetchCountryData returned and cached the list that
\* fetchCitiesData was given to validate, deduplicate and cache.
noScan ==
    [pc |-> "idle", totalPages |-> 0, page |-> 0, requested |-> <<>>,
     citiesData |-> <<>>, returned |-> FALSE, result |-> <<>>,
     isCached |-> FALSE, cached |-> <<>>]

InitScan == scan = noScan

scanUnchanged ==
    /\ UNCHANGED storeVars
    /\ UNCHANGED <<paginated, validation, enrichment, cacheCall, retry,
                   measured, repeat, auth, recovery>>
    /\ UNCHANGED fetchVars
    /\ UNCHANGED dedupeVars

\* fetchCitiesData calls fetchCountryData(country) on a cache miss: page 1
\* is requested.
FetchCountryData(totalPages) ==
    /\ scan.pc \in {"idle", "returned", "raised"}
    /\ scan' = [noScan EXCEPT !.pc = "requesting", !.totalPages = totalPages,
                              !.page = 1, !.requested = <<1>>]
    /\ scanUnchanged

\* makeRequestWithRetry returns the page: its results are pushed; with more
\* pages the next one is requested, else fetchCountryData returns
\* citiesData and fetchCitiesData caches the list it computes from it.
PageArrives ==
    /\ scan.pc = "requesting"
    /\ LET citiesData == scan.citiesData \o resultsOfPage(scan.page)
       IN  scan' =
             IF hasMorePages(scan.page, scan.totalPages)
             THEN [scan EXCEPT !.citiesData = citiesData, !.page = @ + 1,
                               !.requested = Append(@, scan.page + 1)]
             ELSE [scan EXCEPT !.pc = "returned", !.citiesData = citiesData,
                               !.page = IF scan.totalPages # 0 THEN @ + 1 ELSE @,
                               !.returned = TRUE, !.result = citiesData,
                               !.isCached = TRUE, !.cached = citiesData]
    /\ scanUnchanged

\* makeRequestWithRetry throws after its retries, or the response has no
\* results: the catch rethrows, and so does fetchCitiesData before its
\* cache.set.
PageFails ==
    /\ scan.pc = "requesting"
    /\ scan' = [scan EXCEPT !.pc = "raised"]
    /\ scanUnchanged

(***************************************************************************)
(* Specifications                                                          *)
(***************************************************************************)
NextDedupe ==
    \/ \E city \in CityRecords : PushCity(city)
    \/ CallRemoveDuplicateCities

NextStore ==
    \/ Tick
    \/ \E cityName \in CityNames, countryCode \in {Empty, PL, <<"p", "l">>} :
          MarkCityInvalid(cityName, countryCode)
    \/ \E cityName \in CityNames, countryCode \in {PL, <<"X", "X">>} :
          RemoveInvalidCity(cityName, countryCode)
    \/ \E blocked \in {"", "false"}, countryFilter \in {Empty, <<"p", "l">>} :
          GetInvalidCities(blocked, countryFilter)

NextFlags ==
    \/ Tick
    \/ \E f \in Flows, cityName \in {Warsaw, warsaw}, countryCode \in {PL, <<"p", "l">>} :
          SendFlag(f, cityName, countryCode)
    \/ \E f \in Flows : HandleFlag(f)

NextListing ==
    \/ Tick
    \/ \E countryCode \in {PL, <<"p", "l">>} : MarkCityInvalid(Warsaw, countryCode)
    \/ RemoveInvalidCity(Warsaw, PL)
    \/ \E countryParam \in {<<"p", "l">>, <<"X", "X">>},
          pageParam \in {Empty, <<"2">>},
          limitParam \in {Empty, <<"1">>},
          includeBlockedParam \in {"", "true"} :
          GetCitiesV2(countryParam, pageParam, limitParam, includeBlockedParam)

NextFetch ==
    \/ Tick
    \/ \E source \in SourceNames : \E state \in SourceStates(source) :
          SetSource(source, state)
    \/ \E enabled \in BOOLEAN, page \in {1, 2} :
          FetchPollutionData(enabled, PL, page, 1)

NextFaults ==
    \/ Tick
    \/ FailDatabase
    \/ RestoreDatabase
    \/ MarkCityInvalid(Warsaw, PL)
    \/ RemoveInvalidCity(Warsaw, PL)
    \/ \E countryParam \in {<<"p", "l">>, <<"X", "X">>}, includeBlockedParam \in {"", "true"} :
          GetCitiesV2(countryParam, Empty, Empty, includeBlockedParam)

NextPaginate ==
    \E filteredData \in RecordLists, pagination \in Paginations :
        ApplyPaginationToData(filteredData, pagination)

NextParams ==
    \E pageParam \in {Empty, <<"0">>, <<"-", "1">>, <<"1">>, <<"2">>, <<"x">>},
       limitParam \in {Empty, <<"0">>, <<"-", "1">>, <<"1">>, <<"5", "0">>,
                       <<"5", "1">>, <<"x">>} :
        GetCitiesV2(<<"p", "l">>, pageParam, limitParam, "")

NextCities ==
    \/ \E source \in {"historical", "live"} :
          \E state \in SourceStates(source) : SetSource(source, state)
    \/ \E pageParam \in {Empty, <<"2">>}, limitParam \in {Empty, <<"1">>} :
          GetCities(TRUE, <<"p", "l">>, pageParam, limitParam)

NextValidate ==
    \E cityData \in RawRecords, apiKey \in BOOLEAN, answer \in PlacesAnswers :
        IsValidCity(cityData, apiKey, answer)

NextEnrich ==
    \/ \E validCities \in EnrichInputs : EnrichCitiesWithDescriptions(validCities)
    \/ \E i \in 1..Len(enrichment.tasks), answers \in WikipediaAnswers :
          CompleteLookup(i, answers)
    \/ Wake
    \/ \E seconds \in {WikipediaTtl + 1, DescriptionTtl + 1} : Elapse(seconds)

NextCache ==
    \/ \E key \in CacheKeys, value \in CacheValues, ttl \in {0, WikipediaTtl} :
          CacheSet(key, value, ttl)
    \/ \E key \in CacheKeys : CacheGet(key)
    \/ CheckData
    \/ \E pattern \in CachePatterns : ClearPattern(pattern)
    \/ ClearCache
    \/ LegacyClearCache
    \/ \E seconds \in {WikipediaTtl + 1, DescriptionTtl + 1} : Elapse(seconds)

\* A page or limit parameter that is not a positive integer.
BadNumbers == {<<"0">>, <<"-", "1">>, <<"x">>}

\* A country code that no table lists.
Unsupported == <<"X", "X">>

NextInput ==
    \/ FailDatabase
    \/ RestoreDatabase
    \/ \E countryCode \in {Empty, PL, Unsupported} : MarkCityInvalid(Warsaw, countryCode)
    \/ \E countryCode \in {Empty, PL, Unsupported} : RemoveInvalidCity(Warsaw, countryCode)
    \/ \E countryFilter \in {Empty, PL, Unsupported} : GetInvalidCities("", countryFilter)
    \/ \E countryParam \in {PL, Unsupported},
          pageParam \in {Empty} \cup BadNumbers, limitParam \in {Empty} \cup BadNumbers :
          GetCitiesV2(countryParam, pageParam, limitParam, "")

NextRetry ==
    \/ MakeRequestWithRetry
    \/ RequestSucceeds
    \/ \E status \in ErrorStatuses : RequestFails(status)
    \/ RetryAfterSleep

NextMeasured ==
    \E table \in MeasurementTables :
        \E rows \in measurementOrders(table) : GroupMeasurements(table, rows)

NextListed ==
    \E table \in {T \in SUBSET UnvalidatedRows : Cardinality(T) \in 1..(MaxRows - 1)} :
        \E rows \in measurementOrders(table) : GetCitiesFromStore(table, rows)

NextStations ==
    \/ \E T \in {S \in SUBSET StationRows : Cardinality(S) <= MaxRows} :
          \E rows \in selectDistinctStations(T) : GetCitiesV2OverStations(T, rows)
    \/ Elapse(WikipediaTtl + 1)

NextRepeat ==
    \/ MarkCityInvalid(Lodz, PL)
    \/ RemoveInvalidCity(Lodz, PL)
    \/ Elapse(WikipediaTtl + 1)
    \/ \E pageParam \in {Empty, <<"2">>} :
          ListCitiesV2(<<"p", "l">>, pageParam, <<"1">>, "")

NextAuth ==
    \/ \E r \in Requests : StartRequest(r)
    \/ \E r \in Requests, newRefreshToken \in BOOLEAN : RefreshSucceeds(r, newRefreshToken)
    \/ \E r \in Requests : RefreshFails(r)
    \/ \E r \in Requests, newRefreshToken \in BOOLEAN : LoginSucceeds(r, newRefreshToken)
    \/ \E r \in Requests : LoginFails(r)
    \/ \E r \in Requests : EndRequest(r)
    \/ TokenExpires

NextScan ==
    \/ \E totalPages \in 0..MaxPages : FetchCountryData(totalPages)
    \/ PageArrives
    \/ PageFails

InitAll ==
    /\ InitDedupe /\ InitStore /\ InitFetch /\ InitCalls /\ InitEnrich /\ InitCache
    /\ InitRetry /\ InitMeasured /\ InitRepeat /\ InitAuth /\ InitScan
    /\ InitRecovery

\* The reputation store and its handlers, with the database available.
Spec == InitAll /\ [][NextStore]_vars

\* Flag and unflag requests whose country code is written in either case.
NextCase ==
    \/ Tick
    \/ \E cityName \in CityNames, countryCode \in {PL, <<"p", "l">>} :
          MarkCityInvalid(cityName, countryCode)
    \/ \E cityName \in CityNames, countryCode \in {PL, <<"p", "l">>} :
          RemoveInvalidCity(cityName, countryCode)

SpecCase == InitAll /\ [][NextCase]_vars

\* Flag and unflag requests for the keys of one country.
NextFrame ==
    \/ Tick
    \/ \E cityName \in CityNames : MarkCityInvalid(cityName, PL)
    \/ \E cityName \in CityNames : RemoveInvalidCity(cityName, PL)

SpecFrame == InitAll /\ [][NextFrame]_vars

\* Validations while the lookup service fails and after it recovered.
NextRecover ==
    \/ Tick
    \/ \E cityData \in RecoveryRecords, answer \in FailedAnswers \cup RecoveredAnswers :
          ValidateCity(cityData, answer)

SpecRecover == InitAll /\ [][NextRecover]_vars

\* The deduplicator run on every input array of at most MaxLen records.
SpecDedupe == InitAll /\ [][NextDedupe]_vars

\* Flag requests of NFlows concurrent client flows on an empty store.
SpecFlags == InitAll /\ [][NextFlags]_vars

\* The listing endpoint with flags and unflags of a listed city.
SpecListing == InitAll /\ [][NextListing]_vars

\* The listing endpoint and the flag handlers with a database that fails
\* and recovers.
SpecFaults == InitAll /\ [][NextFaults]_vars

\* The listing endpoint with valid and invalid page and limit parameters.
SpecParams == InitAll /\ [][NextParams]_vars

\* GET /cities over changing sources.
SpecCities == InitAll /\ [][NextCities]_vars

\* The validator called on raw records while the lookup answers or fails.
SpecValidate == InitAll /\ [][NextValidate]_vars

\* Enrichment calls whose lookups end in any order, days apart.
SpecEnrich == InitAll /\ [][NextEnrich]_vars

\* The cache manager called while time passes and expired entries are
\* collected.
SpecCache == InitAll /\ [][NextCache]_vars

\* The four store and listing handlers called with good and bad inputs.
SpecInput == InitAll /\ [][NextInput]_vars

\* Requests of the Legacy API client that fail or succeed at every attempt.
SpecRetry == InitAll /\ [][NextRetry]_vars

\* The Historical Store read with every table of at most MaxRows
\* measurements of a city.
SpecMeasured == InitAll /\ [][NextMeasured]_vars

\* GET /cities over a Historical Store that holds measurements of every
\* value.
SpecListed == InitAll /\ [][NextListed]_vars

\* The listing endpoint over locations tables with one or more stations
\* per city, days apart.
SpecStations == InitAll /\ [][NextStations]_vars

\* Listings repeated at once and days later, with flags between them.
SpecRepeat == InitAll /\ [][NextRepeat]_vars

\* Concurrent requests of the Legacy API while tokens expire and the auth
\* endpoints answer or fail.
SpecAuth == InitAll /\ [][NextAuth]_vars

\* Scans of countries of 1 to MaxPages pages, each page arriving or
\* failing.
SpecScan == InitAll /\ [][NextScan]_vars

\* The paginator called on every list of at most MaxLen records with every
\* page and limit of at most MaxPage.
SpecPaginate == InitAll /\ [][NextPaginate]_vars

\* The source selector with sources that change between calls.
SpecFetch == InitAll /\ [][NextFetch]_vars

(***************************************************************************)
(* Claims about the deduplicator                                           *)
(***************************************************************************)
\* The records removeDuplicateCities returned, in output order.
OutputRecords == [i \in 1..Len(uniqueCities) |-> cities[uniqueCities[i]]]

\* The key of the claim: lowercase(canonical name) + "_" + country.
ClaimKey(city) ==
    [i \in 1..Len(cityNameOf(city)) |-> toLowerCaseChar(cityNameOf(city)[i])]
        \o <<"_">> \o city.country

\* The indices of the input records that carry key k.
IndicesOfKey(k) ==
    {i \in 1..Len(cities) : cityNameOf(cities[i]) # Empty /\ ClaimKey(cities[i]) = k}

\* C1: after removeDuplicateCities, no two records of the output have the
\* same key lowercase(name) + "_" + country.
C1_NoDuplicateKeys ==
    dedupePc = "done" =>
        \A i, j \in 1..Len(uniqueCities) :
            i # j => ClaimKey(OutputRecords[i]) # ClaimKey(OutputRecords[j])

\* Two input records whose names differ only in case were merged into one.
C1_Witness ==
    /\ dedupePc = "done"
    /\ \E i, j \in 1..Len(cities) :
          /\ i < j
          /\ cityNameOf(cities[i]) # Empty
          /\ cityNameOf(cities[i]) # cityNameOf(cities[j])
          /\ ClaimKey(cities[i]) = ClaimKey(cities[j])
    /\ Len(uniqueCities) = 1

\* The earliest input index among the records of key k with the maximum
\* pollution value.
EarliestMaxOfKey(k) ==
    CHOOSE i \in IndicesOfKey(k) :
        /\ \A j \in IndicesOfKey(k) :
              pollutionValueOf(cities[j]) <= pollutionValueOf(cities[i])
        /\ \A j \in IndicesOfKey(k) :
              pollutionValueOf(cities[j]) = pollutionValueOf(cities[i]) => i <= j

\* C2: for every key of the input the output holds exactly one record of
\* that key, and it is the earliest input record among those of the key
\* that carry the maximum pollution value (strictly greater replaces, a tie
\* keeps the first seen).
C2_KeepsEarliestMaximum ==
    dedupePc = "done" =>
        \A n \in 1..Len(cities) :
            cityNameOf(cities[n]) # Empty =>
                LET k == ClaimKey(cities[n])
                IN  /\ Cardinality({i \in 1..Len(uniqueCities) :
                                      ClaimKey(OutputRecords[i]) = k}) = 1
                    /\ \E i \in 1..Len(uniqueCities) :
                          uniqueCities[i] = EarliestMaxOfKey(k)

\* A key seen three times: a lower value first, then a strictly greater one
\* that replaced it, then a tie that did not.
C2_Witness ==
    /\ dedupePc = "done"
    /\ Len(cities) = 3
    /\ cityNameOf(cities[1]) # Empty
    /\ ClaimKey(cities[1]) = ClaimKey(cities[2])
    /\ ClaimKey(cities[2]) = ClaimKey(cities[3])
    /\ pollutionValueOf(cities[1]) < pollutionValueOf(cities[2])
    /\ pollutionValueOf(cities[2]) = pollutionValueOf(cities[3])
    /\ uniqueCities = <<2>>

(***************************************************************************)
(* Claims about the reputation store                                       *)
(***************************************************************************)
\* The key that a markCityInvalid response was made for: the name as sent
\* and the country code in upper case.
FlaggedKey(resp) == <<resp.cityName, toUpperCase(resp.countryCode)>>

\* C3: the n-th flag on a key, counted from the creation of its row (its
\* first flag or the first after an unflag), returns invalidCount = n and
\* isBlocked = (n >= 3), and isBlocked of the key is TRUE exactly from the
\* third flag on.
C3_ThirdFlagBlocks ==
    /\ \A k \in StoreKeys :
          isCityBlocked(invalid_cities, dbOk, k[1], k[2]) = (flagCalls[k] >= 3)
    /\ (response.op = "markCityInvalid" /\ response.status = 200) =>
          /\ response.invalidCount = flagCalls[FlaggedKey(response)]
          /\ response.isBlocked = (flagCalls[FlaggedKey(response)] >= 3)

\* The third flag on one key has just blocked it while another key, flagged
\* twice, is not blocked.
C3_Witness ==
    /\ response.op = "markCityInvalid"
    /\ response.invalidCount = 3
    /\ response.isBlocked
    /\ isCityBlocked(invalid_cities, dbOk, response.cityName, toUpperCase(response.countryCode))
    /\ \E k \in StoreKeys :
          /\ flagCalls[k] = 2
          /\ ~isCityBlocked(invalid_cities, dbOk, k[1], k[2])

\* C4: a successful unflag leaves no row for its key, and a flag on a key
\* that has no row (as after an unflag) returns invalidCount = 1 and
\* isBlocked = FALSE.
C4_UnflagForgetsFlags ==
    [][ /\ (response'.op = "removeInvalidCity" /\ response'.status = 200) =>
              rowsOfKey(invalid_cities', response'.cityName, response'.countryCode) = {}
        /\ ( /\ response'.op = "markCityInvalid"
             /\ response'.status = 200
             /\ invalid_cities' # invalid_cities
             /\ rowsOfKey(invalid_cities, response'.cityName,
                          toUpperCase(response'.countryCode)) = {} ) =>
              (response'.invalidCount = 1 /\ ~response'.isBlocked) ]_vars

\* A key that was blocked, then unflagged, has just been flagged again: the
\* flag returned count 1 and the key is not blocked.
C4_Witness ==
    /\ response.op = "markCityInvalid"
    /\ response.status = 200
    /\ FlaggedKey(response) \in lastRemoved
    /\ response.invalidCount = 1
    /\ ~response.isBlocked
    /\ \E r \in invalid_cities :
          /\ <<r.city_name, r.country_code>> = FlaggedKey(response)
          /\ r.invalid_count = 1
          /\ r.first_marked_at = r.last_marked_at

\* C6: the store never holds two rows for the same country whose city names
\* are equal ignoring letter case.
C6_NameKeyIgnoresCase ==
    \A r1, r2 \in invalid_cities :
        ( /\ r1.country_code = r2.country_code
          /\ [i \in 1..Len(r1.city_name) |-> toLowerCaseChar(r1.city_name[i])]
               = [i \in 1..Len(r2.city_name) |-> toLowerCaseChar(r2.city_name[i])] )
        => r1 = r2

\* The entries that listBlocked has to return for country filter f.
ExpectedBlocked(f) ==
    {[cityName |-> r.city_name, countryCode |-> r.country_code,
      invalidCount |-> r.invalid_count, lastMarkedAt |-> r.last_marked_at] :
        r \in {x \in invalid_cities :
                 x.invalid_count >= 3 /\ (f = Empty \/ x.country_code = f)}}

\* C7: getInvalidCities returns exactly the rows whose invalid_count is at
\* least 3 (of the filter's country when a filter is sent), each once, in
\* non-increasing order of lastMarkedAt.
C7_ListBlockedExactAndOrdered ==
    (response.op = "getInvalidCities" /\ response.status = 200) =>
        /\ {response.cities[i] : i \in 1..Len(response.cities)}
              = ExpectedBlocked(response.countryCode)
        /\ Len(response.cities) = Cardinality(ExpectedBlocked(response.countryCode))
        /\ response.total = Len(response.cities)
        /\ \A i, j \in 1..Len(response.cities) :
              i < j => response.cities[i].lastMarkedAt >= response.cities[j].lastMarkedAt

\* Two blocked keys flagged at different times are listed, the later one
\* first, while a key with fewer than 3 flags is in the store and not listed.
C7_Witness ==
    /\ response.op = "getInvalidCities"
    /\ response.status = 200
    /\ Len(response.cities) = 2
    /\ response.cities[1].lastMarkedAt > response.cities[2].lastMarkedAt
    /\ \E r \in invalid_cities : r.invalid_count < 3

(***************************************************************************)
(* Claims about concurrent flags                                           *)
(***************************************************************************)
\* The flows whose flag request on key k the server has answered with 200.
AnsweredOn(k) ==
    {f \in Flows : /\ flows[f].pc = "answered"
                   /\ flows[f].response.status = 200
                   /\ FlaggedKey(flows[f].response) = k}

\* C5: at every point of every interleaving, the flag requests answered so
\* far on a key of the initially empty store have returned the counts
\* 1..N, each once, and the stored invalid_count of the key is N: no
\* increment is lost.
C5_NoLostIncrement ==
    \A k \in StoreKeys :
        /\ {flows[f].response.invalidCount : f \in AnsweredOn(k)}
              = 1..Cardinality(AnsweredOn(k))
        /\ \A f, g \in AnsweredOn(k) :
              flows[f].response.invalidCount = flows[g].response.invalidCount => f = g
        /\ IF AnsweredOn(k) = {}
           THEN rowsOfKey(invalid_cities, k[1], k[2]) = {}
           ELSE \E r \in invalid_cities :
                   /\ rowsOfKey(invalid_cities, k[1], k[2]) = {r}
                   /\ r.invalid_count = Cardinality(AnsweredOn(k))

\* Three flows had flag requests on one key in flight together; two are
\* answered, with the counts 1 and 2, and the third is still in flight.
C5_Witness ==
    \E f, g, h \in Flows :
        /\ flows[f].pc = "answered" /\ flows[f].response.invalidCount = 1
        /\ flows[g].pc = "answered" /\ flows[g].response.invalidCount = 2
        /\ flows[h].pc = "sent"
        /\ FlaggedKey(flows[f].response) = FlaggedKey(flows[g].response)
        /\ <<flows[h].cityName, toUpperCase(flows[h].countryCode)>>
              = FlaggedKey(flows[f].response)
        /\ flows[f].countryCode # flows[g].countryCode

SourceOrder == <<"historical", "live", "legacy">>

\* Source number i would have answered the request with at least one record.
Yields(i) ==
    /\ fetchResult.offered[SourceOrder[i]].ok
    /\ fetchResult.offered[SourceOrder[i]].records # <<>>

\* C9: a fetch tries Historical Store, Live API, Legacy API in this order
\* up to and including the first source that yields a record, returns the
\* records of that source, and returns records of one source only.
C9_FirstYieldingSourceWins ==
    fetchResult.outcome # "none" =>
        /\ \A i \in 1..3 :
              (Yields(i) /\ \A j \in 1..(i - 1) : ~Yields(j)) =>
                  /\ fetchResult.outcome = "returned"
                  /\ fetchResult.cities = fetchResult.offered[SourceOrder[i]].records
                  /\ fetchResult.tried = SubSeq(SourceOrder, 1, i)
        /\ (\A i \in 1..3 : ~Yields(i)) => fetchResult.tried = SourceOrder
        /\ \A a, b \in 1..Len(fetchResult.cities) :
              fetchResult.cities[a].source = fetchResult.cities[b].source

\* C10: a fetch raises only when all three sources failed, and when the
\* Historical Store gave nothing and the Live API failed the Legacy API is
\* tried.
C10_RaisesOnlyWhenAllFail ==
    fetchResult.outcome # "none" =>
        /\ fetchResult.outcome = "raised" =>
              \A s \in SourceNames : ~fetchResult.offered[s].ok
        /\ (~Yields(1) /\ ~fetchResult.offered["live"].ok) =>
              \E i \in 1..Len(fetchResult.tried) : fetchResult.tried[i] = "legacy"

(***************************************************************************)
(* Claims about failing sources                                            *)
(***************************************************************************)
\* C11: a listing answered while the only source of GET /api/cities, the
\* database, fails is never a successful response with no item and total 0.
C11_FailedSourceIsNotEmptySuccess ==
    [][ ( /\ response'.op = "getCitiesV2"
          /\ UNCHANGED <<now, dbOk, invalid_cities>>
          /\ ~dbOk
          /\ response'.status = 200 )
        => ~(response'.cities = <<>> /\ response'.total = 0) ]_vars

(***************************************************************************)
(* Claims about the source caches                                          *)
(***************************************************************************)
\* The source whose records the last fetch returned, as a set.
ProducedLast ==
    IF fetchResult.outcome = "returned"
    THEN {fetchResult.tried[Len(fetchResult.tried)]}
    ELSE {}

\* C12: a fetch for the country made within the hour after a source
\* produced the result of the previous fetch makes no database or network
\* access to that source, whatever page it asks for.
C12_RepeatFetchSkipsSource ==
    [][ ( /\ UNCHANGED <<sources, now>>
          /\ fetchResult'.outcome # "none" )
        => \A s \in ProducedLast : s \notin fetchResult'.accessed ]_vars

(***************************************************************************)
(* Claims about the paginator                                              *)
(***************************************************************************)
\* The page size of the last call: the limit sent, 9 when none was sent.
PageSize ==
    IF "limit" \in DOMAIN paginated.pagination THEN paginated.pagination.limit ELSE 9

\* The number of records from index (page-1)*pageSize on, at most pageSize.
PageLength ==
    LET from == (paginated.pagination.page - 1) * PageSize
        left == Len(paginated.filteredData) - from
    IN  IF left <= 0 THEN 0 ELSE IF left < PageSize THEN left ELSE PageSize

\* C13: applyPaginationToData returns the records from index
\* (page-1)*pageSize up to but excluding (page-1)*pageSize + pageSize, in
\* input order, and totalCount equal to the length of the whole list.
C13_PageIsSubList ==
    paginated.called =>
        /\ Len(paginated.cities) = PageLength
        /\ \A i \in 1..PageLength :
              paginated.cities[i] =
                 paginated.filteredData[(paginated.pagination.page - 1) * PageSize + i]
        /\ paginated.totalCount = Len(paginated.filteredData)

\* Page 2 of a list of three different records with page size 2 was
\* requested: the page is the third record alone and the total is 3.
C13_Witness ==
    /\ paginated.called
    /\ paginated.pagination = [page |-> 2, limit |-> 2]
    /\ paginated.filteredData = <<Lodz, Warsaw, warsaw>>
    /\ paginated.cities = <<warsaw>>
    /\ paginated.totalCount = 3

(***************************************************************************)
(* Claims about pages beyond the last page                                 *)
(***************************************************************************)
\* C14: a fetch of a page beyond the last page of the set that the
\* Historical Store holds for the country returns no record and the total
\* of that set, not the records or the total of another source.
C14_PageBeyondLastIsEmpty ==
    ( /\ fetchResult.outcome # "none"
      /\ fetchResult.offered["historical"].ok
      /\ fetchResult.offered["historical"].total > 0
      /\ fetchResult.offered["historical"].records = <<>> )
    => /\ fetchResult.outcome = "returned"
       /\ fetchResult.cities = <<>>
       /\ fetchResult.totalCount = fetchResult.offered["historical"].total

(***************************************************************************)
(* Claims about the pagination parameters                                  *)
(***************************************************************************)
\* The parameters that write a number below 1 or no number, and the number
\* that each other parameter writes.
BelowOneOrNaN == {<<"0">>, <<"-", "1">>, <<"x">>}

NumberSent(param) ==
    CASE param = <<"1">> -> 1
      [] param = <<"2">> -> 2
      [] param = <<"5", "0">> -> 50
      [] param = <<"5", "1">> -> 51

C16_LimitIgnored ==
    (response.op = "getCities" /\ response.status = 200) =>
        /\ response.limit = 9
        /\ response.page * 9 < response.total => Len(response.cities) = 9

(***************************************************************************)
(* Claims about the total of a listing                                     *)
(***************************************************************************)
\* The cities of the country in the locations table that have fewer than 3
\* flags.
UnblockedCitiesOf(countryCode) ==
    {locations[i].city : i \in
        {j \in 1..Len(locations) :
            /\ locations[j].country_code = countryCode
            /\ \A r \in invalid_cities :
                  (r.city_name = locations[j].city /\ r.country_code = countryCode)
                  => r.invalid_count < 3}}

\* C17: the total of a listing made with includeBlocked false or unset is
\* the number of cities of the country that are not blocked, the set the
\* returned page is a part of.
C17_TotalCountsFilteredSet ==
    (response.op = "getCitiesV2" /\ response.status = 200 /\ ~response.includeBlocked) =>
        response.total = Cardinality(UnblockedCitiesOf(response.countryCode))

(***************************************************************************)
(* Claims about the validator                                              *)
(***************************************************************************)
\* C18: a record with a valid name and country, validated without a lookup,
\* is accepted exactly when its pollution is a finite number from 0 to
\* 1000, both ends included.
C18_PollutionAcceptedInRange ==
    ( /\ validation.called
      /\ validation.cityData.city = Warsaw
      /\ validation.cityData.country = PL
      /\ ~validation.apiKey )
    => ( validation.isValid <=>
            /\ validation.cityData.pollution.type = "number"
            /\ validation.cityData.pollution.value >= 0
            /\ validation.cityData.pollution.value <= 1000 )

\* The names that are empty after the trim, shorter than 2 or longer than
\* 100 characters, made of digits only or of symbols only.
BadShapeNames ==
    {Empty, <<" ">>, <<"W">>, <<"0", "0", "7">>, <<"#", "#">>,
     [i \in 1..101 |-> "a"]}

\* C19: a record whose name has a bad shape is rejected, and no lookup
\* request is made for it.
C19_BadShapeRejectedBeforeLookup ==
    (validation.called /\ validation.cityData.city \in BadShapeNames) =>
        (~validation.isValid /\ ~validation.requested)

\* C20: when the lookup request is made and fails (fetch throws, or the
\* body is not JSON or lacks the predictions), a record with a well-shaped
\* name, an allowed country and a pollution from 0 to 1000 is accepted with
\* its trimmed name.
C20_LookupFailureAccepts ==
    ( /\ validation.called
      /\ validation.requested
      /\ validation.answer.kind \in {"networkError", "notJson", "noPredictionsField"}
      /\ validation.cityData.city \in {Warsaw, <<" ", "W", "a", " ">>}
      /\ validation.cityData.country = PL
      /\ validation.cityData.pollution.type = "number"
      /\ validation.cityData.pollution.value >= 0
      /\ validation.cityData.pollution.value <= 1000 )
    => (validation.isValid /\ validation.correctedName = Warsaw)

(***************************************************************************)
(* Claims about the enrichment                                             *)
(***************************************************************************)
\* C21: the results pushed so far are the input cities in input order, each
\* with a non-empty description; a returned call has one result per input
\* city, and a city whose lookup found no page or failed has the
\* description 'No description available'.
C21_EnrichKeepsLengthAndOrder ==
    /\ Len(enrichment.enrichedCities) <= Len(enrichment.validCities)
    /\ \A i \in 1..Len(enrichment.enrichedCities) :
          /\ enrichment.enrichedCities[i].city = enrichment.validCities[i].city
          /\ enrichment.enrichedCities[i].country = enrichment.validCities[i].country
          /\ enrichment.enrichedCities[i].description \notin {"", "null"}
          /\ enrichment.tasks[i].lookup \in {"notFound", "failed"} =>
                enrichment.enrichedCities[i].description = "No description available"
    /\ enrichment.pc = "returned" =>
          Len(enrichment.enrichedCities) = Len(enrichment.validCities)
    /\ (enrichment.pc = "running" /\ enrichment.chunk = Len(enrichment.chunks)) =>
          \E i \in 1..Len(enrichment.tasks) : enrichment.tasks[i].state = "lookup"

\* A call on seven cities returned after a lookup had ended before the lookup
\* of an earlier position; the lookup of the first city failed and the
\* lookup of the second found a page.
C21_Witness ==
    /\ enrichment.pc = "returned"
    /\ Len(enrichment.enrichedCities) = 7
    /\ enrichment.overtaken
    /\ enrichment.tasks[1].lookup = "failed"
    /\ enrichment.tasks[2].lookup = "found"
    /\ enrichment.enrichedCities[2].description # "No description available"

\* The batch of the city at position i.
BatchOf(i) == ((i - 1) \div 5) + 1

InFlight == {i \in 1..Len(enrichment.tasks) : enrichment.tasks[i].state = "lookup"}

\* C22: at most 5 lookups are in flight; a lookup is in flight only while
\* its batch runs, every city of the earlier batches then has its result,
\* and one delay has ended for each earlier batch.
C22_AtMostFiveInFlight ==
    /\ Cardinality(InFlight) <= 5
    /\ enrichment.pc # "running" => InFlight = {}
    /\ \A i \in 1..Len(enrichment.tasks) :
          enrichment.tasks[i].state # "new" =>
              /\ \A j \in 1..Len(enrichment.tasks) :
                    BatchOf(j) < BatchOf(i) => enrichment.tasks[j].state = "done"
              /\ Len(enrichment.enrichedCities) >= 5 * (BatchOf(i) - 1)
              /\ enrichment.sleeps >= BatchOf(i) - 1

\* The lookup of the sixth city is in flight: the five cities of the first
\* batch have their results and one delay has ended; the seventh city got
\* its description from the cache.
C22_Witness ==
    /\ enrichment.pc = "running"
    /\ InFlight = {6}
    /\ enrichment.sleeps = 1
    /\ Len(enrichment.enrichedCities) = 5
    /\ enrichment.tasks[7].cached

\* The cities whose promises are created by the step: those of the batch
\* that runs after the step, when the call was not running before it.
StartedByStep ==
    IF enrichment.pc \in {"idle", "returned", "sleeping"}
       /\ enrichment' # enrichment
       /\ enrichment'.chunk > 0
    THEN {i \in 1..Len(enrichment'.tasks) : BatchOf(i) = enrichment'.chunk}
    ELSE {}

C24_GetWithinTtl ==
    cacheCall.op = "get" =>
        LET last == cacheCall.lastSet[cacheCall.key]
        IN  (last.at >= 0 /\ last.ttl > 0) =>
                /\ cacheCall.at - last.at < last.ttl =>
                      (cacheCall.hit /\ cacheCall.value = last.value)
                /\ cacheCall.at - last.at > last.ttl => ~cacheCall.hit

\* A get returned nothing for a key set 86401 seconds before with a ttl of
\* 86400 seconds, while a key set with "v2" in the second of the get is
\* resident.
C24_Witness ==
    /\ cacheCall.op = "get"
    /\ ~cacheCall.hit
    /\ cacheCall.lastSet[cacheCall.key].ttl = 86400
    /\ cacheCall.at - cacheCall.lastSet[cacheCall.key].at = 86401
    /\ \E k \in DOMAIN cache :
          /\ cacheCall.lastSet[k].value = "v2"
          /\ cacheCall.lastSet[k].at = cacheCall.at
          /\ cache[k].value = "v2"

\* C25: a call that removes the keys matching a pattern completes, leaves no
\* key with the prefix of the pattern readable and leaves every other
\* readable key readable with its value.
C25_DeletePatternRemovesMatches ==
    [][(cacheCall'.op = "clearPattern" /\ cacheCall.op # "clearPattern") =>
          /\ ~cacheCall'.threw
          /\ \A k \in CacheKeys :
                IF matchesPattern(cacheCall'.key, k)
                THEN ~cacheHit(cache', k, now')
                ELSE cacheHit(cache, k, now) =>
                        /\ cacheHit(cache', k, now')
                        /\ cacheGet(cache', k) = cacheGet(cache, k)]_vars

\* C26: a request to clear the cache is answered with success by either
\* controller and leaves no cached entry readable.
C26_ClearCacheSucceeds ==
    [][(response'.op \in {"clearCache", "legacyClearCache"}
        /\ cacheCall'.op \in {"del", "keys"} /\ cacheCall.op \notin {"del", "keys"}) =>
          /\ response'.status = 200
          /\ \A k \in CacheKeys : ~cacheHit(cache', k, now')]_vars

(***************************************************************************)
(* Claims about errors                                                     *)
(***************************************************************************)
\* C27: a flag or unflag request handled while the reputation store fails
\* is answered with a failure; a flag request is answered with success, an
\* invalidCount and isBlocked only when the store holds the row of the city
\* with that count after the request changed the table.
C27_StoreFailureFailsTheCall ==
    [][(response' # response
        /\ response'.op \in {"markCityInvalid", "removeInvalidCity"}
        /\ response'.status = 200) =>
          /\ dbOk
          /\ response'.op = "markCityInvalid" =>
                /\ invalid_cities' # invalid_cities
                /\ \E r \in rowsOfKey(invalid_cities', response'.cityName,
                                      toUpperCase(response'.countryCode)) :
                      /\ r.invalid_count = response'.invalidCount
                      /\ response'.isBlocked = (r.invalid_count >= 3)]_vars

\* C28: a request with a bad input (an unsupported country code on any of
\* the four handlers, a missing country code on a flag or unflag request, a
\* page or limit of a listing that is not a positive integer) is answered
\* with status 400.
C28_BadInputIsClientError ==
    [][/\ \A countryCode \in {Empty, Unsupported} :
             \/ MarkCityInvalid(Warsaw, countryCode)
             \/ RemoveInvalidCity(Warsaw, countryCode)
             => response'.status = 400
       /\ GetInvalidCities("", Unsupported) => response'.status = 400
       /\ \A countryParam \in {PL, Unsupported},
             pageParam \in {Empty} \cup BadNumbers, limitParam \in {Empty} \cup BadNumbers :
             (/\ GetCitiesV2(countryParam, pageParam, limitParam, "")
              /\ \/ countryParam = Unsupported
                 \/ pageParam \in BadNumbers
                 \/ limitParam \in BadNumbers)
             => response'.status = 400]_vars

\* C29: a Legacy API request whose error is propagated after failing every
\* time with an error other than a 4xx response was sent 4 times (the first
\* attempt and 3 retries), with a delay before each retry that is twice the
\* delay before.
C29_ThreeRetriesThenError ==
    (retry.pc = "thrown" /\ ~isClientError(retry.errors[Len(retry.errors)])) =>
        /\ Len(retry.errors) = 1 + 3
        /\ Len(retry.delays) = 3
        /\ \A i \in 1..(Len(retry.delays) - 1) : retry.delays[i + 1] = 2 * retry.delays[i]

(***************************************************************************)
(* Claims about the Historical Store                                       *)
(***************************************************************************)
\* The values of the most recent measurements of a parameter in the table.
LatestValues(table, parameter) ==
    {r.value : r \in {q \in table :
        /\ q.parameter = parameter
        /\ \A o \in table : o.parameter = parameter => o.date <= q.date}}

\* C30: the pollution figure of a city of the Historical Store is its most
\* recent PM10 value when the city has a PM10 measurement (0 included), and
\* otherwise its most recent PM2.5 value times 2.5.
C30_LatestPm10ElsePm25 ==
    ~measured.isNull =>
        IF LatestValues(measured.table, "pm10") # {}
        THEN measured.city.pollution \in LatestValues(measured.table, "pm10")
        ELSE measured.city.pollution \in
                {timesConversion(v) : v \in LatestValues(measured.table, "pm2_5")}

(***************************************************************************)
(* Claims about the listing of flagged cities                              *)
(***************************************************************************)
\* The entries of a list of flagged cities, each as name, country and count.
ListedEntries(list) ==
    {<<list[i].cityName, list[i].countryCode, list[i].invalidCount>> :
        i \in 1..Len(list)}

\* C31: a listing of the flagged cities answered with success holds, with
\* blocked = false, every entry of the store (of the country of the filter
\* when one is given), the entries flagged once or twice included, and with
\* the default, blocked only, the entries flagged 3 times or more.
C31_ListFlaggedHonoursBlockedOnly ==
    [][\A blocked \in {"", "false"}, countryFilter \in {Empty, PL} :
          (GetInvalidCities(blocked, countryFilter) /\ dbOk /\ response'.status = 200) =>
              ListedEntries(response'.cities) =
                  {<<r.city_name, r.country_code, r.invalid_count>> :
                      r \in {q \in invalid_cities :
                                /\ countryFilter = Empty \/ q.country_code = countryFilter
                                /\ blocked = "false" \/ q.invalid_count >= 3}}]_vars

(***************************************************************************)
(* Claims about the items of a listing                                     *)
(***************************************************************************)
\* C32: the pollution value of every item of a listing is within 0..1000.
C32_ListedPollutionInRange ==
    \A i \in 1..Len(measured.items) :
        measured.items[i].pollution >= 0 /\ measured.items[i].pollution <= MaxAqi

\* C33: no listing answered with success holds two items with the same
\* lower-cased name and the same country.
C33_NoTwoItemsOfOneCity ==
    (response.op = "getCitiesV2" /\ response.status = 200) =>
        \A i, j \in 1..Len(response.cities) :
            (/\ toLowerCase(response.cities[i].name) = toLowerCase(response.cities[j].name)
             /\ response.cities[i].countryCode = response.cities[j].countryCode)
            => i = j

C35_NeverSentWithoutToken ==
    \A r \in Requests :
        /\ auth.requests[r].pc = "sent" => auth.requests[r].bearer = "token"
        /\ auth.requests[r].calls \in
              {<<>>, <<"refresh">>, <<"login">>, <<"refresh", "login">>}
        /\ auth.requests[r].pc = "failed" =>
              auth.requests[r].calls[Len(auth.requests[r].calls)] = "login"

\* Two requests were sent with a token, one after a refresh that failed and a
\* login, while a third one, whose refresh failed, waits for its login
\* and no token is held.
C35_Witness ==
    /\ auth.requests[1].pc = "sent"
    /\ auth.requests[1].calls = <<"refresh", "login">>
    /\ auth.requests[2].pc = "sent"
    /\ auth.requests[2].calls = <<"refresh">>
    /\ auth.requests[3].pc = "login"
    /\ auth.requests[3].calls = <<"refresh", "login">>
    /\ auth.authToken = "null"

RECURSIVE AllPages(_)
\* The results of pages 1..n in order.
AllPages(n) == IF n = 0 THEN <<>> ELSE AllPages(n - 1) \o resultsOfPage(n)

\* The number of the last page of a scan.
LastPage == IF scan.totalPages = 0 THEN 1 ELSE scan.totalPages

\* C36: a scan requests the pages 1, 2, ... in increasing order and none
\* after the last page; a scan that returned requested every page up to the
\* last one and returned, and gave to the cache, the results of all of them
\* in order; a scan that raised returned nothing and cached nothing.
C36_ScanIsCompleteOrRaises ==
    /\ \A i \in 1..Len(scan.requested) : scan.requested[i] = i
    /\ Len(scan.requested) <= LastPage
    /\ scan.pc = "returned" =>
          /\ Len(scan.requested) = LastPage
          /\ scan.result = AllPages(LastPage)
          /\ scan.isCached /\ scan.cached = AllPages(LastPage)
    /\ scan.pc = "raised" => ~scan.returned /\ ~scan.isCached

\* A scan of 3 pages returned 6 records after 3 requests.
C36_Witness ==
    /\ scan.pc = "returned"
    /\ scan.totalPages = 3
    /\ scan.requested = <<1, 2, 3>>
    /\ Len(scan.result) = 6

(***************************************************************************)
(* Claims about the keys of the reputation store                           *)
(***************************************************************************)
\* The rows of the table under other keys than the given one.
OtherRows(table, cityName, countryCode) ==
    {r \in table : ~sameKey(r, cityName, countryCode)}

\* C37: a flag or unflag request for one key leaves the rows of every other
\* key as they were (count, first and last mark), and an unflag request for
\* a key without a row is answered without success and changes no row.
C37_OtherKeysUntouched ==
    [][/\ \A cityName \in CityNames :
             MarkCityInvalid(cityName, PL) =>
                 OtherRows(invalid_cities', cityName, PL) =
                     OtherRows(invalid_cities, cityName, PL)
       /\ \A cityName \in CityNames :
             RemoveInvalidCity(cityName, PL) =>
                 /\ OtherRows(invalid_cities', cityName, PL) =
                        OtherRows(invalid_cities, cityName, PL)
                 /\ rowsOfKey(invalid_cities, cityName, PL) = {} =>
                        /\ ~response'.success
                        /\ response'.changes = 0
                        /\ invalid_cities' = invalid_cities]_vars

\* An unflag request for a key without a row was answered without success
\* while the store holds Warsaw, flagged twice at time 0, and Lodz, flagged
\* once at time 1.
C37_Witness ==
    /\ response.op = "removeInvalidCity"
    /\ ~response.success
    /\ response.cityName = warsaw
    /\ \E r \in invalid_cities :
          /\ sameKey(r, Warsaw, PL)
          /\ r.invalid_count = 2 /\ r.first_marked_at = 0 /\ r.last_marked_at = 0
    /\ \E r \in invalid_cities :
          /\ sameKey(r, Lodz, PL)
          /\ r.invalid_count = 1 /\ r.first_marked_at = 1 /\ r.last_marked_at = 1
    /\ Cardinality(invalid_cities) = 2

\* C38: an unflag request with the city name and the country code of an
\* earlier flag request, the code written in either case, removes the row the
\* flag created: it is answered with success and the city is not blocked
\* afterwards.
C38_UnflagUndoesFlagInAnyCase ==
    [][\A cityName \in CityNames, countryCode \in {PL, <<"p", "l">>} :
          /\ rowsOfKey(invalid_cities, cityName, toUpperCase(countryCode)) # {}
          /\ RemoveInvalidCity(cityName, countryCode)
          => /\ response'.success
             /\ rowsOfKey(invalid_cities', cityName, toUpperCase(countryCode)) = {}
             /\ ~isCityBlocked(invalid_cities', dbOk', cityName,
                               toUpperCase(countryCode))]_vars

====
